---- MODULE Spec2Model ----
(***************************************************************************)
(* Agent Memory: the SQLite store (MemoryStore) and the corroboration      *)
(* engine (CorroborationEngine) as a state machine.                        *)
(*                                                                         *)
(* Representation of numbers:                                              *)
(*   - a confidence score is an integer number of hundredths (the code     *)
(*     rounds every stored score with Math.round(x * 100) / 100);          *)
(*   - a relevance is an integer number of ten-thousandths (RelOne = 1.0); *)
(*   - a decay rate is an integer number of hundredths;                    *)
(*   - time is counted in days (ONE_DAY = 1), Date.now() is the variable   *)
(*     now;                                                                *)
(*   - a content similarity is the exact fraction [num, den].              *)
(* Strings are sequences of one-character strings, so that split,          *)
(* toLowerCase and includes are computed character by character.           *)
(***************************************************************************)
EXTENDS Integers, Sequences, FiniteSets, TLC

\* ------------------------------------------------------------------ text

\* String.prototype.toLowerCase on one character (the alphabet of the model
\* has the capitals C, E, S and T)
ToLowerChar(c) ==
  CASE c = "C" -> "c"
    [] c = "E" -> "e"
    [] c = "S" -> "s"
    [] c = "T" -> "t"
    [] OTHER -> c

toLowerCase(s) == [i \in 1..Len(s) |-> ToLowerChar(s[i])]

\* String.prototype.includes: t occurs in s as a substring
includes(s, t) ==
  \E i \in 0..(Len(s) - Len(t)) : SubSeq(s, i + 1, i + Len(t)) = t

\* s.split(/\s+/): the maximal runs between runs of blanks (a leading or a
\* trailing blank yields an empty piece, as in JavaScript)
RECURSIVE splitFrom(_, _, _)
splitFrom(s, i, cur) ==
  IF i > Len(s) THEN <<cur>>
  ELSE IF s[i] = " "
       THEN IF i > 1 /\ s[i - 1] = " "
            THEN splitFrom(s, i + 1, cur)
            ELSE <<cur>> \o splitFrom(s, i + 1, <<>>)
       ELSE splitFrom(s, i + 1, Append(cur, s[i]))

split(s) == splitFrom(s, 1, <<>>)

\* Array.prototype.join(' ')
RECURSIVE join(_)
join(ws) ==
  IF Len(ws) = 0 THEN <<>>
  ELSE IF Len(ws) = 1 THEN ws[1]
  ELSE ws[1] \o <<" ">> \o join(Tail(ws))

\* Array.prototype.filter(w => w.length > n)
RECURSIVE longerThan(_, _)
longerThan(ws, n) ==
  IF Len(ws) = 0 THEN <<>>
  ELSE IF Len(ws[1]) > n
       THEN <<ws[1]>> \o longerThan(Tail(ws), n)
       ELSE longerThan(Tail(ws), n)

\* Array.prototype.slice(0, n): a negative n counts from the end
firstN(ws, n) ==
  SubSeq(ws, 1, IF n < 0 THEN (IF Len(ws) + n < 0 THEN 0 ELSE Len(ws) + n)
                ELSE IF Len(ws) < n THEN Len(ws) ELSE n)

\* the rows of a SELECT ... LIMIT n: a negative n is no limit (SQLite)
sqlLimit(rows, n) ==
  IF n < 0 THEN rows ELSE SubSeq(rows, 1, IF Len(rows) < n THEN Len(rows) ELSE n)

Range(f) == {f[i] : i \in DOMAIN f}

\* CorroborationEngine.contentSimilarity: Jaccard over the tokens longer than
\* 3 characters, case-folded; 0 when both token sets are empty
contentSimilarity(a, b) ==
  LET wordsA == Range(longerThan(split(toLowerCase(a)), 3))
      wordsB == Range(longerThan(split(toLowerCase(b)), 3))
      intersection == Cardinality(wordsA \cap wordsB)
      union == Cardinality(wordsA) + Cardinality(wordsB) - intersection
  IN IF union = 0 THEN [num |-> 0, den |-> 1]
     ELSE [num |-> intersection, den |-> union]

\* sim > n/10 for a fraction sim
SimAbove(sim, tenths) == 10 * sim.num > tenths * sim.den

\* ------------------------------------------------------------ the catalogue

\* The contents a memory can be given, by key (a stored content is its key)
ContentText ==
  [ enabled   |-> <<"t", "h", "e", " ", "s", "e", "r", "v", "i", "c", "e", " ",
                    "e", "n", "a", "b", "l", "e", "d", " ", "t", "o", "d", "a", "y">>,
    disabled  |-> <<"t", "h", "e", " ", "s", "e", "r", "v", "i", "c", "e", " ",
                    "d", "i", "s", "a", "b", "l", "e", "d", " ", "t", "o", "d", "a", "y">>,
    confirmed |-> <<"C", "o", "n", "f", "i", "r", "m", "e", "d", " ", "t", "h", "e", " ",
                    "s", "e", "r", "v", "i", "c", "e", " ", "E", "n", "a", "b", "l", "e", "d",
                    " ", "t", "o", "d", "a", "y">>,
    short     |-> <<"s", "e", "r", "v", "i", "c", "e", " ",
                    "d", "i", "s", "a", "b", "l", "e", "d">>,
    negated   |-> <<"t", "h", "e", " ", "s", "e", "r", "v", "i", "c", "e", " ",
                    "i", "s", " ", "n", "o", "t", " ", "e", "n", "a", "b", "l", "e", "d">> ]

ContentKeys == DOMAIN ContentText

\* The texts a recall is asked with: the empty text, one term, one term that
\* not every content has, no term of more than two characters, and a phrase
\* of two terms
QueryTexts ==
  { <<>>,
    <<"s", "e", "r", "v", "i", "c", "e">>,
    <<"e", "n", "a", "b", "l", "e", "d">>,
    <<"t", "o">>,
    <<"t", "h", "e", " ", "s", "e", "r", "v", "i", "c", "e">> }

\* The contexts of an attribution and of a query, by key
ContextText ==
  [ testing |-> <<"t", "e", "s", "t", "i", "n", "g">>,
    manual  |-> <<"m", "a", "n", "u", "a", "l">>,
    both    |-> <<"m", "a", "n", "u", "a", "l", " ", "t", "e", "s", "t", "i", "n", "g">>,
    synced  |-> <<"S", "y", "n", "c", "e", "d", " ", "f", "r", "o", "m">> ]

\* an absent optional value (undefined / NULL)
None == "none"

SourceTypes == {"experienced", "observed", "told", "read", "inferred"}

\* SOURCE_BASE_CONFIDENCE, in hundredths
SOURCE_BASE_CONFIDENCE ==
  [ experienced |-> 90, observed |-> 80, told |-> 60, read |-> 50, inferred |-> 40 ]

\* CATEGORY_DEFAULT_DECAY, in hundredths
CATEGORY_DEFAULT_DECAY ==
  [ fact |-> 10, procedure |-> 15, relationship |-> 20, preference |-> 25,
    event |-> 30, opinion |-> 35, observation |-> 40 ]

Categories == DOMAIN CATEGORY_DEFAULT_DECAY

\* relevance 1.0
RelOne == 10000

\* confidence 1.0
ScoreOne == 100

Min(a, b) == IF a < b THEN a ELSE b
Max(a, b) == IF a > b THEN a ELSE b

\* ------------------------------------------------------------------ bounds

\* memories ever created in one run
MaxFacts == 2
\* operations (store and engine calls) in one run
MaxSteps == 3
\* clock advances in one run
MaxTicks == 1
\* days the clock advances at a time
DayStep == 15
\* memories of the store the engine runs start from
CorpusSize == 3
\* engine calls in one engine run
EngineSteps == 1
\* memories of the store the corroboration runs start from
PairSize == 2
\* engine calls in one corroboration run
PairSteps == 2
\* store calls in one decay run
DecaySteps == 3
DecayTicks == 2
\* the memories of a source run and the calls made on them
SourceSize == 2
SourceSteps == 1
\* the memories of a counter run and the calls made on them
CountSize == 2
CountSteps == 2
\* the memories of a verification run and the calls made on them
VerifySize == 3
VerifySteps == 1
\* the memories created in a creation run
CreateSteps == 2
\* the memories of a recall run, the recalls made on them, and the days the
\* store was left idle before its last sweep
RecallSize == 2
RecallSteps == 1
IdleDays == 240
\* the memories of a ranking run and the recalls made on them
RankSize == 2
RankSteps == 1
\* the syncs, creations and deletions of a sync run
SyncSteps == 3
\* the steps of the grid of channel scores computeMatchScore is applied to
MatchGrid == 8
\* the contradiction scans of a run over copies
CopySteps == 1

\* ------------------------------------------------------------------ state

VARIABLES
  store,   \* the database: [memories, memory_entities, entities, nextId]
  now,     \* Date.now(), in days
  steps,   \* operations the run may still perform
  last     \* the last operation: its name, arguments, result and pre-state

vars == <<store, now, steps, last>>

\* The empty database after initSchema. memories maps a row id to its row
\* (ids are fresh, in insertion order, like the uuid and the rowid of the
\* row); memory_entities is the junction table; entities maps an entity id
\* to its memory_count; synced_files maps a file path to its row and
\* synced_memories is the table of the pairs <<memory_id, file_path>>, the
\* two tables SyncEngine.ensureSyncTable adds.
EmptyStore ==
  [ memories |-> <<>>, memory_entities |-> {}, entities |-> <<>>, nextId |-> 1,
    synced_files |-> <<>>, synced_memories |-> {} ]

Ids(S) == DOMAIN S.memories

\* a set of integers as the ascending sequence
RECURSIVE Ascending(_)
Ascending(set) ==
  IF set = {} THEN <<>>
  ELSE LET m == CHOOSE x \in set : \A y \in set : x <= y
       IN <<m>> \o Ascending(set \ {m})

\* rowToMemory: the entity ids linked to the row
EntitiesOf(S, id) == {p[2] : p \in {q \in S.memory_entities : q[1] = id}}

\* the names of the model's entities, in the order the junction table lists them
EntityOrder == <<"ops", "svc">>

\* a set of entity ids as the list rowToMemory returns
EntityList(set) == SelectSeq(EntityOrder, LAMBDA e : e \in set)

\* ------------------------------------------------------- MemoryStore (CRUD)

\* one entry of confidence.basis
BasisEntry(kind, ref, by, pct) == [kind |-> kind, ref |-> ref, by |-> by, pct |-> pct]

\* computeInitialConfidence with a boost for a known actor as well
computeInitialConfidenceActorBoost(input) ==
  LET baseScore == SOURCE_BASE_CONFIDENCE[input.type]
      score == baseScore + (IF input.context # None THEN 5 ELSE 0)
                         + (IF input.actor # None THEN 5 ELSE 0)
  IN [ score |-> Min(ScoreOne, score),
       basis |-> <<BasisEntry("base", 0, input.type, baseScore)>>,
       corroborations |-> 0,
       contradictions |-> 0,
       lastVerified |-> -1 ]

\* MemoryStore.computeInitialConfidence
computeInitialConfidence(input) ==
  LET baseScore == SOURCE_BASE_CONFIDENCE[input.type]
      score == IF input.context # None THEN baseScore + 5 ELSE baseScore
      basis == <<BasisEntry("base", 0, input.type, baseScore)>>
               \o (IF input.actor # None
                   THEN <<BasisEntry("from", 0, input.actor, 0)>> ELSE <<>>)
               \o (IF input.context # None
                   THEN <<BasisEntry("context", 0, None, 0)>> ELSE <<>>)
  IN [ score |-> Min(ScoreOne, score),
       basis |-> basis,
       corroborations |-> 0,
       contradictions |-> 0,
       lastVerified |-> -1 ]

\* MemoryStore.linkEntities: for each listed entity, auto-create it, INSERT OR
\* IGNORE the link and increment memory_count
RECURSIVE linkEntities(_, _, _)
linkEntities(S, memoryId, entityIds) ==
  IF Len(entityIds) = 0 THEN S
  ELSE LET e == entityIds[1]
           ents == IF e \in DOMAIN S.entities THEN S.entities
                   ELSE [x \in DOMAIN S.entities \cup {e} |->
                           IF x = e THEN 0 ELSE S.entities[x]]
           S1 == [S EXCEPT !.entities = [ents EXCEPT ![e] = @ + 1],
                           !.memory_entities = @ \cup {<<memoryId, e>>}]
       IN linkEntities(S1, memoryId, Tail(entityIds))

\* MemoryStore.createMemory
createMemory(S, input, t) ==
  LET id == S.nextId
      row == [ content |-> input.content,
               summary |-> input.summary,
               attribution |-> [type |-> input.type, actor |-> input.actor,
                                context |-> input.context, timestamp |-> t],
               confidence |-> computeInitialConfidence(input),
               category |-> input.category,
               created |-> t,
               updated |-> t,
               lastAccessed |-> t,
               accessCount |-> 0,
               decayRate |-> IF "decayRate" \in DOMAIN input THEN input.decayRate
                             ELSE CATEGORY_DEFAULT_DECAY[input.category],
               relevanceScore |-> RelOne,
               pinned |-> IF "pinned" \in DOMAIN input THEN input.pinned ELSE FALSE ]
      S1 == [S EXCEPT !.memories = [x \in Ids(S) \cup {id} |->
                                      IF x = id THEN row ELSE S.memories[x]],
                      !.nextId = id + 1]
  IN linkEntities(S1, id, input.entities)

\* MemoryStore.getMemory: the access tracking it writes (the row it returns is
\* the one read before the update)
getMemory(S, id, t) ==
  IF id \notin Ids(S) THEN S
  ELSE [S EXCEPT !.memories[id].lastAccessed = t,
                 !.memories[id].accessCount = @ + 1]

\* updateMemory writing the category also when none is given
updateMemoryUnguarded(S, id, updates, t) ==
  IF id \notin Ids(S) THEN S
  ELSE LET S1 == getMemory(S, id, t)
           r == S1.memories[id]
           r2 == [r EXCEPT
                    !.updated = t,
                    !.content = IF "content" \in DOMAIN updates THEN updates.content ELSE @,
                    !.summary = IF "summary" \in DOMAIN updates THEN updates.summary ELSE @,
                    !.category = IF "category" \in DOMAIN updates THEN updates.category ELSE None,
                    !.pinned = IF "pinned" \in DOMAIN updates THEN updates.pinned ELSE @,
                    !.decayRate = IF "decayRate" \in DOMAIN updates THEN updates.decayRate ELSE @]
       IN getMemory([S1 EXCEPT !.memories[id] = r2], id, t)

\* MemoryStore.updateMemory: getMemory, the UPDATE of the given fields, getMemory
updateMemory(S, id, updates, t) ==
  IF id \notin Ids(S) THEN S
  ELSE LET S1 == getMemory(S, id, t)
           r == S1.memories[id]
           r2 == [r EXCEPT
                    !.updated = t,
                    !.content = IF "content" \in DOMAIN updates THEN updates.content ELSE @,
                    !.summary = IF "summary" \in DOMAIN updates THEN updates.summary ELSE @,
                    !.category = IF "category" \in DOMAIN updates THEN updates.category ELSE @,
                    !.pinned = IF "pinned" \in DOMAIN updates THEN updates.pinned ELSE @,
                    !.decayRate = IF "decayRate" \in DOMAIN updates THEN updates.decayRate ELSE @]
       IN getMemory([S1 EXCEPT !.memories[id] = r2], id, t)

\* MemoryStore.deleteMemory: the row and, by ON DELETE CASCADE, its links and
\* its rows of synced_memories
deleteMemory(S, id) ==
  [S EXCEPT !.memories = [x \in Ids(S) \ {id} |-> S.memories[x]],
            !.memory_entities = {p \in @ : p[1] # id},
            !.synced_memories = {p \in @ : p[1] # id}]

\* ------------------------------------------------------------------ decay

\* The alternating series of e^(-p/RelOne) from term k on, in the unit of term
RECURSIVE expSeries(_, _, _)
expSeries(p, k, term) ==
  IF term = 0 THEN 0
  ELSE term - expSeries(p, k + 1, (term * p) \div ((k + 1) * RelOne))

\* Math.exp(-p / RelOne) for p >= 0, in ten-thousandths
RECURSIVE expNeg(_)
expNeg(p) ==
  IF p <= RelOne THEN (expSeries(p, 0, 10 * RelOne) + 5) \div 10
  ELSE (expNeg(p \div 2) * expNeg(p - (p \div 2)) + (RelOne \div 2)) \div RelOne

\* Math.exp(-decay_rate * daysSinceAccess * 0.01), in ten-thousandths; the
\* exponent -rate/100 * days/100 is -(rate * days)/RelOne
MathExp(rate, days) ==
  LET p == rate * days
  IN IF p >= 0 THEN expNeg(p) ELSE (RelOne * RelOne) \div expNeg(-p)

\* decayedRelevance with the exponential taken as growth towards 1
decayedRelevanceInverted(row, t) ==
  Max(0, Min(RelOne, RelOne - MathExp(row.decayRate, t - row.lastAccessed)))

\* the relevance applyDecay computes for a row at time t
decayedRelevance(row, t) ==
  LET daysSinceAccess == t - row.lastAccessed
      newRelevance == MathExp(row.decayRate, daysSinceAccess)
  IN Max(0, Min(RelOne, newRelevance))

\* decayWrites with the SELECT taking the pinned rows too
decayWritesAll(S, t) ==
  LET rows == Ascending(Ids(S))
      changed == SelectSeq(rows, LAMBDA id :
                   decayedRelevance(S.memories[id], t) # S.memories[id].relevanceScore)
  IN [i \in 1..Len(changed) |->
        [id |-> changed[i], relevance |-> decayedRelevance(S.memories[changed[i]], t)]]

\* the UPDATE statements of applyDecay, in the order of the SELECT (rowid):
\* one for each non-pinned row whose relevance changes
decayWrites(S, t) ==
  LET rows == Ascending({id \in Ids(S) : ~S.memories[id].pinned})
      changed == SelectSeq(rows, LAMBDA id :
                   decayedRelevance(S.memories[id], t) # S.memories[id].relevanceScore)
  IN [i \in 1..Len(changed) |->
        [id |-> changed[i], relevance |-> decayedRelevance(S.memories[changed[i]], t)]]

\* the first n relevance writes applied
RECURSIVE applyRelevance(_, _, _)
applyRelevance(S, writes, n) ==
  IF n = 0 THEN S
  ELSE LET w == writes[n]
       IN [applyRelevance(S, writes, n - 1) EXCEPT
             !.memories[w.id].relevanceScore = w.relevance]

\* the writes of fn run without a transaction: those before the failing one stay
transactionAutocommit(S, writes, failAt) ==
  applyRelevance(S, writes, IF failAt = 0 THEN Len(writes) ELSE failAt - 1)

\* db.transaction(fn)(): every write of fn, or none when one of them throws
\* (failAt is the index of the write that fails, 0 when none does)
transaction(S, writes, failAt) ==
  IF failAt = 0 THEN applyRelevance(S, writes, Len(writes)) ELSE S

\* MemoryStore.applyDecay: the store it leaves and the counts it returns
applyDecay(S, t, failAt) ==
  LET writes == decayWrites(S, t)
  IN [ store |-> transaction(S, writes, failAt),
       updated |-> Len(writes),
       archived |-> Cardinality({i \in 1..Len(writes) : writes[i].relevance < 500}),
       failed |-> failAt # 0 ]

\* ---------------------------------------------------------------- queries

\* the keywords findRelated searches for: the first three words longer than 4
keywords(text) == join(firstN(longerThan(split(text), 4), 3))

Keywords == [c \in ContentKeys |-> keywords(ContentText[c])]

\* the texts searchByText is given
SearchTexts == {Keywords[c] : c \in ContentKeys} \cup QueryTexts

\* value LIKE '%text%' on texts (LIKE ignores the case of ASCII)
likeText(value, text) == includes(toLowerCase(value), toLowerCase(text))

\* likeText of every content and search text
LikeTable ==
  [c \in ContentKeys |-> [t \in SearchTexts |-> likeText(ContentText[c], t)]]

\* value LIKE '%text%' on a stored column (NULL never matches)
Like(value, text) == value # None /\ LikeTable[value][text]

\* ORDER BY relevance_score DESC, created DESC (then by rowid)
ByRelevance(S, a, b) ==
  LET ra == S.memories[a]
      rb == S.memories[b]
  IN \/ ra.relevanceScore > rb.relevanceScore
     \/ /\ ra.relevanceScore = rb.relevanceScore
        /\ \/ ra.created > rb.created
           \/ ra.created = rb.created /\ a < b

\* MemoryStore.getEntityMemories: the ids of the rows linked to the entity
getEntityMemories(S, entityId, limit) ==
  LET hit == {id \in Ids(S) : <<id, entityId>> \in S.memory_entities}
  IN sqlLimit(SortSeq(Ascending(hit), LAMBDA a, b : ByRelevance(S, a, b)), limit)

\* MemoryStore.searchByText
searchByText(S, text, limit) ==
  LET hit == {id \in Ids(S) : \/ Like(S.memories[id].content, text)
                              \/ Like(S.memories[id].summary, text)}
  IN sqlLimit(SortSeq(Ascending(hit), LAMBDA a, b : ByRelevance(S, a, b)), limit)

\* MemoryStore.searchByCategory
searchByCategory(S, category, limit) ==
  LET hit == {id \in Ids(S) : S.memories[id].category = category}
  IN sqlLimit(SortSeq(Ascending(hit), LAMBDA a, b : ByRelevance(S, a, b)), limit)

\* MemoryStore.getAllMemories: ORDER BY created DESC (the index on created is
\* read backwards, so rows created at the same time come latest row first)
getAllMemories(S, limit) ==
  sqlLimit(SortSeq(Ascending(Ids(S)), LAMBDA a, b :
             \/ S.memories[a].created > S.memories[b].created
             \/ S.memories[a].created = S.memories[b].created /\ a > b), limit)

\* ------------------------------------------------------ CorroborationEngine

\* contentSimilarity of every two contents of the catalogue
Similarity ==
  [a \in ContentKeys |->
     [b \in ContentKeys |-> contentSimilarity(ContentText[a], ContentText[b])]]

\* the similarity of two stored contents
similarityOf(a, b) == Similarity[a][b]

\* sequence without the elements already in it (Array.find dedup), appended
RECURSIVE appendNew(_, _)
appendNew(candidates, ms) ==
  IF Len(ms) = 0 THEN candidates
  ELSE appendNew(IF ms[1] \in Range(candidates) THEN candidates
                 ELSE Append(candidates, ms[1]), Tail(ms))

RECURSIVE relatedByEntity(_, _, _)
relatedByEntity(S, entityIds, candidates) ==
  IF Len(entityIds) = 0 THEN candidates
  ELSE relatedByEntity(S, Tail(entityIds),
                       appendNew(candidates, getEntityMemories(S, entityIds[1], 20)))

\* CorroborationEngine.findRelated: the candidate ids, entity overlap first,
\* then the text matches of the keywords
findRelated(S, id) ==
  LET byEntity == relatedByEntity(S, EntityList(EntitiesOf(S, id)), <<>>)
      words == Keywords[S.memories[id].content]
  IN IF Len(words) > 0
     THEN appendNew(byEntity, searchByText(S, words, 10))
     ELSE byEntity

\* isIndependentSource with absent actors and contexts compared like values
isIndependentSourceAbsentDiffers(a, b) ==
  \/ a.attribution.type # b.attribution.type
  \/ a.attribution.actor # b.attribution.actor
  \/ a.attribution.context # b.attribution.context

\* CorroborationEngine.isIndependentSource
isIndependentSource(a, b) ==
  \/ a.attribution.type # b.attribution.type
  \/ /\ a.attribution.actor # None
     /\ b.attribution.actor # None
     /\ a.attribution.actor # b.attribution.actor
  \/ /\ a.attribution.context # None
     /\ b.attribution.context # None
     /\ a.attribution.context # b.attribution.context

\* Math.round(n / d) for n >= 0, d > 0
Round(n, d) == (2 * n + d) \div (2 * d)

\* sourceWeights, in tenths
sourceWeights ==
  [ experienced |-> 15, observed |-> 12, told |-> 10, read |-> 8, inferred |-> 5 ]

\* CorroborationEngine.calculateBoost, in hundredths:
\* similarity * 0.1 * weight * 1/(1 + existing * 0.3), rounded to 2 decimals
calculateBoost(similarity, newMem, existingMem) ==
  LET weight == sourceWeights[newMem.attribution.type]
      existing == existingMem.confidence.corroborations
  IN IF existing > 0
     THEN Round(similarity.num * weight * 10, similarity.den * (10 + 3 * existing))
     ELSE Round(similarity.num * weight, similarity.den)

\* CorroborationEngine.updateConfidence: one UPDATE of the confidence column,
\* committed on its own (no enclosing transaction)
updateConfidence(S, memoryId, confidence, t) ==
  IF memoryId \notin Ids(S) THEN S
  ELSE [S EXCEPT !.memories[memoryId].confidence = confidence,
                 !.memories[memoryId].updated = t]

\* the first n confidence writes of a call applied, each by updateConfidence
RECURSIVE applyConfidence(_, _, _, _)
applyConfidence(S, writes, n, t) ==
  IF n = 0 THEN S
  ELSE updateConfidence(applyConfidence(S, writes, n - 1, t),
                        writes[n].id, writes[n].confidence, t)

\* The confidence writes of one engine call as they reach the database: the
\* write number failAt throws (0: none does), the writes before it stay
commitWrites(S, writes, failAt, t) ==
  IF failAt = 0 \/ failAt > Len(writes)
  THEN applyConfidence(S, writes, Len(writes), t)
  ELSE applyConfidence(S, writes, failAt - 1, t)

\* boostedScore without the cap at 1
boostedScoreUncapped(oldScore, boost) == oldScore + boost

\* boostedScore with the boost taken for the new score
boostedScoreReplaced(oldScore, boost) == Min(ScoreOne, boost)

\* the score checkCorroboration gives a corroborated memory:
\* Math.min(1, oldScore + boost)
boostedScore(oldScore, boost) == Min(ScoreOne, oldScore + boost)

\* the loop body of checkCorroboration for the candidates from index i on:
\* one result and one write for each independent candidate with similarity > 0.5
RECURSIVE corroborate(_, _, _, _, _)
corroborate(S, newId, candidates, i, t) ==
  IF i > Len(candidates) THEN <<>>
  ELSE LET newMemory == S.memories[newId]
           existing == S.memories[candidates[i]]
           similarity == similarityOf(newMemory.content, existing.content)
           boost == calculateBoost(similarity, newMemory, existing)
           oldScore == existing.confidence.score
           newScore == boostedScore(oldScore, boost)
           rest == corroborate(S, newId, candidates, i + 1, t)
       IN IF /\ candidates[i] # newId
             /\ isIndependentSource(newMemory, existing)
             /\ SimAbove(similarity, 5)
          THEN << [ memoryId |-> candidates[i],
                    oldConfidence |-> oldScore,
                    newConfidence |-> newScore,
                    similarity |-> similarity,
                    boost |-> boost,
                    confidence |->
                      [existing.confidence EXCEPT
                         !.score = newScore,
                         !.corroborations = @ + 1,
                         !.lastVerified = t,
                         !.basis = Append(@, BasisEntry("corroborated", 0,
                                                        newMemory.attribution.type, boost))] ] >>
               \o rest
          ELSE rest

\* CorroborationEngine.checkCorroboration
checkCorroboration(S, newId, t, failAt) ==
  LET found == corroborate(S, newId, findRelated(S, newId), 1, t)
      writes == [i \in 1..Len(found) |->
                   [id |-> found[i].memoryId, confidence |-> found[i].confidence]]
      failed == failAt # 0 /\ failAt <= Len(writes)
  IN [ store |-> commitWrites(S, writes, failAt, t),
       results |-> IF failed THEN <<>> ELSE found,
       failed |-> failed ]

\* negationPairs
negationPairs ==
  << <<<<"i", "s">>, <<"i", "s", "n", "'", "t">>>>,
     <<<<"i", "s">>, <<"i", "s", " ", "n", "o", "t">>>>,
     <<<<"c", "a", "n">>, <<"c", "a", "n", "'", "t">>>>,
     <<<<"c", "a", "n">>, <<"c", "a", "n", "n", "o", "t">>>>,
     <<<<"d", "o", "e", "s">>, <<"d", "o", "e", "s", "n", "'", "t">>>>,
     <<<<"d", "o", "e", "s">>, <<"d", "o", "e", "s", " ", "n", "o", "t">>>>,
     <<<<"s", "h", "o", "u", "l", "d">>, <<"s", "h", "o", "u", "l", "d", "n", "'", "t">>>>,
     <<<<"s", "h", "o", "u", "l", "d">>, <<"s", "h", "o", "u", "l", "d", " ", "n", "o", "t">>>>,
     <<<<"w", "o", "r", "k", "s">>, <<"d", "o", "e", "s", "n", "'", "t", " ", "w", "o", "r", "k">>>>,
     <<<<"w", "o", "r", "k", "i", "n", "g">>, <<"n", "o", "t", " ", "w", "o", "r", "k", "i", "n", "g">>>>,
     <<<<"t", "r", "u", "e">>, <<"f", "a", "l", "s", "e">>>>,
     <<<<"y", "e", "s">>, <<"n", "o">>>>,
     <<<<"e", "n", "a", "b", "l", "e", "d">>, <<"d", "i", "s", "a", "b", "l", "e", "d">>>> >>

\* the condition of detectContradiction's loop for pair k
negationHit(aLower, bLower, k) ==
  LET pos == negationPairs[k][1]
      neg == negationPairs[k][2]
  IN \/ includes(aLower, pos) /\ includes(bLower, neg)
     \/ includes(aLower, neg) /\ includes(bLower, pos)

\* detectContradiction without the test of the similarity
detectContradictionAnySimilarity(aText, bText) ==
  LET hits == {k \in DOMAIN negationPairs :
                 negationHit(toLowerCase(aText), toLowerCase(bText), k)}
  IN IF hits = {} THEN 0 ELSE CHOOSE k \in hits : \A h \in hits : k <= h

\* CorroborationEngine.detectContradiction on two texts: the index of the
\* negation pair of the reason it returns, 0 for null
detectContradictionIn(aText, bText) ==
  LET aLower == toLowerCase(aText)
      bLower == toLowerCase(bText)
      hits == {k \in DOMAIN negationPairs :
                 /\ negationHit(aLower, bLower, k)
                 /\ SimAbove(contentSimilarity(aLower, bLower), 3)}
  IN IF hits = {} THEN 0 ELSE CHOOSE k \in hits : \A h \in hits : k <= h

\* detectContradiction of every two contents of the catalogue
Contradiction ==
  [a \in ContentKeys |->
     [b \in ContentKeys |-> detectContradictionIn(ContentText[a], ContentText[b])]]

\* detectContradiction on two stored contents
detectContradiction(a, b) == Contradiction[a][b]

\* contradicted built without the fields of the confidence read
contradictedFresh(confidence, other) ==
  [confidence EXCEPT
     !.corroborations = 0,
     !.contradictions = @ + 1,
     !.basis = Append(@, BasisEntry("contradiction", other, None, 0))]

\* the confidence findContradictions writes for a memory found to contradict
\* the memory other: { ...confidence, contradictions + 1, basis + entry }
contradicted(confidence, other) ==
  [confidence EXCEPT
     !.contradictions = @ + 1,
     !.basis = Append(@, BasisEntry("contradiction", other, None, 0))]

\* The body of findContradictions' inner loop for the pair (memories[i],
\* memories[j]) of the snapshot: acc is [results, writes] so far. The rows a
\* and b are those of the snapshot S read by getAllMemories before the loops.
contradictionStep(S, memories, i, j, acc) ==
  LET a == S.memories[memories[i]]
      b == S.memories[memories[j]]
      sharedEntities == EntitiesOf(S, memories[i]) \cap EntitiesOf(S, memories[j])
      contradiction == detectContradiction(a.content, b.content)
  IN IF sharedEntities = {} THEN acc
     ELSE IF a.category # b.category THEN acc
     ELSE IF contradiction = 0 THEN acc
     ELSE [ results |-> Append(acc.results,
                               [ memoryA |-> memories[i],
                                 memoryB |-> memories[j],
                                 similarity |-> similarityOf(a.content, b.content),
                                 reason |-> contradiction ]),
            writes |-> acc.writes \o
              << [ id |-> memories[i],
                   confidence |-> contradicted(a.confidence, memories[j]) ],
                 [ id |-> memories[j],
                   confidence |-> contradicted(b.confidence, memories[i]) ] >> ]

\* for (let j = ...; j < memories.length; j++)
RECURSIVE contradictionInner(_, _, _, _, _)
contradictionInner(S, memories, i, j, acc) ==
  IF j > Len(memories) THEN acc
  ELSE contradictionInner(S, memories, i, j + 1,
                          contradictionStep(S, memories, i, j, acc))

\* for (let i = 0; i < memories.length && contradictions.length < limit; i++)
RECURSIVE contradictionOuter(_, _, _, _, _)
contradictionOuter(S, memories, i, limit, acc) ==
  IF i > Len(memories) \/ Len(acc.results) >= limit THEN acc
  ELSE contradictionOuter(S, memories, i + 1, limit,
                          contradictionInner(S, memories, i, i + 1, acc))

\* CorroborationEngine.findContradictions
findContradictions(S, limit, t, failAt) ==
  LET memories == getAllMemories(S, 200)
      scan == contradictionOuter(S, memories, 1, limit,
                                 [results |-> <<>>, writes |-> <<>>])
      failed == failAt # 0 /\ failAt <= Len(scan.writes)
  IN [ store |-> commitWrites(S, scan.writes, failAt, t),
       results |-> IF failed THEN <<>> ELSE scan.results,
       failed |-> failed ]

\* supporting with the independence test of checkCorroboration added
supportingIndependent(S, memoryId) ==
  SelectSeq(findRelated(S, memoryId), LAMBDA rel :
    /\ rel # memoryId
    /\ isIndependentSource(S.memories[memoryId], S.memories[rel])
    /\ SimAbove(similarityOf(S.memories[memoryId].content, S.memories[rel].content), 4))

\* the candidates of verifyMemory that support the memory: similarity > 0.4
supporting(S, memoryId) ==
  SelectSeq(findRelated(S, memoryId), LAMBDA rel :
    /\ rel # memoryId
    /\ SimAbove(similarityOf(S.memories[memoryId].content, S.memories[rel].content), 4))

\* CorroborationEngine.verifyMemory
verifyMemory(S, memoryId, t, failAt) ==
  IF memoryId \notin Ids(S)
  THEN [ store |-> S, verified |-> FALSE, corroborations |-> 0,
         newConfidence |-> 0, failed |-> FALSE ]
  ELSE LET memory == S.memories[memoryId]
           S1 == getMemory(S, memoryId, t)
           corroborations == Len(supporting(S1, memoryId))
           newConfidence == IF corroborations > 0
                            THEN Min(ScoreOne, memory.confidence.score + corroborations * 5)
                            ELSE memory.confidence.score
           writes == IF corroborations > 0
                     THEN << [ id |-> memoryId,
                               confidence |->
                                 [memory.confidence EXCEPT
                                    !.score = newConfidence,
                                    !.corroborations = @ + corroborations,
                                    !.lastVerified = t] ] >>
                     ELSE <<>>
           failed == failAt # 0 /\ failAt <= Len(writes)
       IN [ store |-> commitWrites(S1, writes, failAt, t),
            verified |-> corroborations > 0,
            corroborations |-> corroborations,
            newConfidence |-> newConfidence,
            failed |-> failed ]

\* ------------------------------------------------------------- RecallEngine

\* Representation: a match score (and a cosine similarity) is an integer
\* number of eightieths, a context boost an integer number of twentieths, and
\* a final score the exact product matchScore * score * relevance * boost, in
\* units of 1/FinalOne.  The arithmetic is exact for the queries of the model
\* (at most two query terms, at most two context terms, embeddings with
\* integer norms).

\* matchScore 1.0
MatchOne == 80

\* contextBoost 1.0
BoostOne == 20

\* finalScore 1.0
FinalOne == MatchOne * ScoreOne * RelOne * BoostOne

\* minFinalScore = 0.15
minFinalScore == 15 * (FinalOne \div 100)

\* the number of the terms that the text includes
RECURSIVE termsIn(_, _)
termsIn(terms, text) ==
  IF Len(terms) = 0 THEN 0
  ELSE (IF includes(text, terms[1]) THEN 1 ELSE 0) + termsIn(Tail(terms), text)

\* RecallEngine.textMatchScore (matches counts half matches)
textMatchScore(query, memory) ==
  LET queryLower == toLowerCase(query)
      contentLower == toLowerCase(ContentText[memory.content])
      summaryLower == IF memory.summary = None THEN <<>>
                      ELSE toLowerCase(ContentText[memory.summary])
      queryTerms == longerThan(split(queryLower), 2)
      matches == 2 * termsIn(queryTerms, contentLower)
                 + termsIn(queryTerms, summaryLower)
                 + (IF includes(contentLower, queryLower)
                    THEN 2 * Len(queryTerms) ELSE 0)
  IN IF Len(queryTerms) = 0 THEN 0
     ELSE Min(MatchOne, (matches * MatchOne) \div (4 * Len(queryTerms)))

\* RecallEngine.computeMatchScore
computeMatchScore(scores) ==
  IF scores.semantic > 0
  THEN (5 * scores.semantic + 3 * scores.text + 2 * scores.entity) \div 10
  ELSE (7 * scores.text + 3 * scores.entity) \div 10

\* RecallEngine.contextBoost (0.3 is 6 twentieths)
contextBoost(context, memory) ==
  LET contextLower == toLowerCase(ContextText[context])
      memContext == IF memory.attribution.context = None THEN <<>>
                    ELSE toLowerCase(ContextText[memory.attribution.context])
      contextTerms == longerThan(split(contextLower), 3)
      overlap == termsIn(contextTerms, memContext)
  IN IF Len(memContext) = 0 THEN BoostOne
     ELSE BoostOne + (6 * overlap) \div Max(Len(contextTerms), 1)

\* Math.sqrt, rounded down (exact on the squares)
Sqrt(n) == CHOOSE r \in 0..n : r * r <= n /\ (r + 1) * (r + 1) > n

RECURSIVE dotProduct(_, _)
dotProduct(a, b) ==
  IF Len(a) = 0 THEN 0 ELSE a[1] * b[1] + dotProduct(Tail(a), Tail(b))

\* cosineSimilarity, in eightieths
cosineSimilarity(a, b) ==
  IF Len(a) # Len(b) THEN 0
  ELSE LET denom == Sqrt(dotProduct(a, a)) * Sqrt(dotProduct(b, b))
       IN IF denom = 0 THEN 0 ELSE (dotProduct(a, b) * MatchOne) \div denom

\* EmbeddingProvider.embed of a query text
embed(text) == IF text = <<"t", "o">> THEN <<0, 1>> ELSE <<1, 0>>

\* the embedding stored with a memory of each content
StoredEmbedding ==
  [ enabled |-> <<3, 4>>, disabled |-> <<4, 3>>, confirmed |-> <<3, 4>>,
    short |-> <<0, 1>> ]

\* MemoryStore.getAllEmbeddings: the id and the embedding of every row
getAllEmbeddings(S) ==
  LET ids == Ascending(Ids(S))
  IN [i \in 1..Len(ids) |->
        [id |-> ids[i], embedding |-> StoredEmbedding[S.memories[ids[i]].content]]]

\* the engines: without an embedder, with one, with one whose embed rejects
Embedders == {None, "ok", "failing"}

\* one entry of candidateMap
Candidate(id, text, semantic, entity) ==
  [id |-> id, scores |-> [text |-> text, semantic |-> semantic, entity |-> entity]]

\* candidateMap.has(id)
has(map, id) == \E i \in 1..Len(map) : map[i].id = id

\* the loop over the rows of one channel: a row not yet in the map enters it
\* with zero scores, at the end
RECURSIVE addCandidates(_, _)
addCandidates(map, ids) ==
  IF Len(ids) = 0 THEN map
  ELSE addCandidates(IF has(map, ids[1]) THEN map
                     ELSE Append(map, Candidate(ids[1], 0, 0, 0)), Tail(ids))

\* the entity channel of recall: every linked memory gets scores.entity = 1.0
RECURSIVE entityChannel(_, _, _, _)
entityChannel(S, map, entities, limit) ==
  IF Len(entities) = 0 THEN map
  ELSE LET entityMems == getEntityMemories(S, entities[1], limit * 2)
           added == addCandidates(map, entityMems)
           marked == [i \in 1..Len(added) |->
                        IF added[i].id \in Range(entityMems)
                        THEN [added[i] EXCEPT !.scores.entity = MatchOne]
                        ELSE added[i]]
       IN entityChannel(S, marked, Tail(entities), limit)

\* the category channel giving the memories of the category a lexical score
RECURSIVE categoryChannelMatched(_, _, _, _)
categoryChannelMatched(S, map, categories, limit) ==
  IF Len(categories) = 0 THEN map
  ELSE LET rows == searchByCategory(S, categories[1], limit * 2)
           added == addCandidates(map, rows)
           marked == [i \in 1..Len(added) |->
                        IF added[i].id \in Range(rows)
                        THEN [added[i] EXCEPT !.scores.text = MatchOne]
                        ELSE added[i]]
       IN categoryChannelMatched(S, marked, Tail(categories), limit)

\* the category channel of recall: the memories of the category become
\* candidates
RECURSIVE categoryChannel(_, _, _, _)
categoryChannel(S, map, categories, limit) ==
  IF Len(categories) = 0 THEN map
  ELSE categoryChannel(S, addCandidates(map, searchByCategory(S, categories[1], limit * 2)),
                       Tail(categories), limit)

\* the semantic channel of recall: a memory with similarity > 0.5 gets
\* scores.semantic; one not yet in the map is read with getMemory
RECURSIVE semanticChannel(_, _, _, _, _)
semanticChannel(S, map, allEmbeddings, queryEmbedding, t) ==
  IF Len(allEmbeddings) = 0 THEN [store |-> S, map |-> map]
  ELSE LET id == allEmbeddings[1].id
           sim == cosineSimilarity(queryEmbedding, allEmbeddings[1].embedding)
           rest == Tail(allEmbeddings)
       IN IF 2 * sim > MatchOne
          THEN IF ~has(map, id)
               THEN semanticChannel(getMemory(S, id, t),
                                    Append(map, Candidate(id, 0, sim, 0)),
                                    rest, queryEmbedding, t)
               ELSE semanticChannel(S,
                                    [i \in 1..Len(map) |->
                                       IF map[i].id = id
                                       THEN [map[i] EXCEPT !.scores.semantic = sim]
                                       ELSE map[i]],
                                    rest, queryEmbedding, t)
          ELSE semanticChannel(S, map, rest, queryEmbedding, t)

\* a RecallResult: the memory (by id), matchScore and
\* finalScore = matchScore * confidence.score * relevanceScore * boost
RecallResult(S, id, matchScore, boost) ==
  [ memory |-> id, matchScore |-> matchScore,
    finalScore |-> matchScore * S.memories[id].confidence.score
                     * S.memories[id].relevanceScore * boost ]

\* results.sort left out: the results in the order they were gathered
sortByFinalScoreKept(results) == results

\* results.sort((a, b) => b.finalScore - a.finalScore): stable, so results of
\* equal finalScore keep their order
RECURSIVE insertByFinalScore(_, _)
insertByFinalScore(sorted, r) ==
  IF Len(sorted) = 0 THEN <<r>>
  ELSE IF sorted[1].finalScore >= r.finalScore
       THEN <<sorted[1]>> \o insertByFinalScore(Tail(sorted), r)
       ELSE <<r>> \o sorted

RECURSIVE sortByFinalScore(_)
sortByFinalScore(results) ==
  IF Len(results) = 0 THEN <<>>
  ELSE insertByFinalScore(sortByFinalScore(SubSeq(results, 1, Len(results) - 1)),
                          results[Len(results)])

\* passesFilters with the tests on the memory left out
passesFiltersNone(S, query, c) == TRUE

\* the filters of recall's scoring loop: a candidate is skipped when its
\* confidence score is below minConfidence, or its relevance is below
\* minRelevance and includeDecayed is not set
passesFilters(S, query, c) ==
  /\ ~(S.memories[c.id].confidence.score < query.minConfidence)
  /\ ~(/\ S.memories[c.id].relevanceScore < query.minRelevance
       /\ ~query.includeDecayed)

\* RecallEngine.recall: the store it leaves, the results it resolves with, or
\* failed when the promise rejects
recall(S, query, embedder, t) ==
  LET limit == query.limit
      textResults == searchByText(S, query.text, limit * 3)
      byText == [i \in 1..Len(textResults) |->
                   Candidate(textResults[i],
                             textMatchScore(query.text, S.memories[textResults[i]]), 0, 0)]
      byEntity == entityChannel(S, byText, query.entities, limit)
      byCategory == categoryChannel(S, byEntity, query.categories, limit)
      semantic == IF embedder = None THEN [store |-> S, map |-> byCategory]
                  ELSE semanticChannel(S, byCategory, getAllEmbeddings(S),
                                       embed(query.text), t)
      kept == SelectSeq(semantic.map, LAMBDA c : passesFilters(S, query, c))
      results == [i \in 1..Len(kept) |->
                    RecallResult(S, kept[i].id, computeMatchScore(kept[i].scores),
                                 IF query.context # None
                                 THEN contextBoost(query.context, S.memories[kept[i].id])
                                 ELSE BoostOne)]
      filtered == SelectSeq(results, LAMBDA r : r.finalScore >= minFinalScore)
  IN IF embedder = "failing"
     THEN [store |-> S, results |-> <<>>, failed |-> TRUE]
     ELSE [store |-> semantic.store,
           results |-> firstN(sortByFinalScore(filtered), limit),
           failed |-> FALSE]

\* RecallEngine.quickRecall
quickRecall(S, text, limit) ==
  LET memories == searchByText(S, text, limit * 3)
      results == [i \in 1..Len(memories) |->
                    RecallResult(S, memories[i],
                                 textMatchScore(text, S.memories[memories[i]]), BoostOne)]
  IN firstN(sortByFinalScore(results), limit)

\* RecallEngine.entityRecall
entityRecall(S, entityId, limit) ==
  LET memories == getEntityMemories(S, entityId, limit)
  IN sortByFinalScore([i \in 1..Len(memories) |->
                         RecallResult(S, memories[i], MatchOne, BoostOne)])

\* --------------------------------------------------------------- SyncEngine

\* The contents a workspace file can have, by key: content.split('\n'), the
\* lines of the file.  Every item of a file is a content of the catalogue.
FileLines ==
  [ original |-> << <<"#", " ", "C", "h", "a", "n", "g", "e", "s">>,
                    <<"-", " ", "t", "h", "e", " ", "s", "e", "r", "v", "i", "c", "e", " ", "e", "n", "a", "b", "l", "e", "d", " ", "t", "o", "d", "a", "y">> >>,
    updated  |-> << <<"#", " ", "C", "h", "a", "n", "g", "e", "s">>,
                    <<"-", " ", "t", "h", "e", " ", "s", "e", "r", "v", "i", "c", "e", " ", "d", "i", "s", "a", "b", "l", "e", "d", " ", "t", "o", "d", "a", "y">>,
                    <<"-", " ", "s", "e", "r", "v", "i", "c", "e", " ", "d", "i", "s", "a", "b", "l", "e", "d">> >>,
    lessons  |-> << <<"#", "#", " ", "C", "o", "r", "e", " ", "l", "e", "s", "s", "o", "n", "s">>,
                    <<"-", " ", "C", "o", "n", "f", "i", "r", "m", "e", "d", " ", "t", "h", "e", " ", "s", "e", "r", "v", "i", "c", "e", " ", "E", "n", "a", "b", "l", "e", "d", " ", "t", "o", "d", "a", "y">>,
                    <<>>,
                    <<"t", "h", "e", " ", "s", "e", "r", "v", "i", "c", "e">>,
                    <<"e", "n", "a", "b", "l", "e", "d", " ", "t", "o", "d", "a", "y">> >> ]

FileKeys == DOMAIN FileLines

\* createHash('sha256').update(content).digest('hex'): one digest for each
\* content, different contents have different digests
Hash == [ original |-> "9f2c", updated |-> "41d7", lessons |-> "c05a" ]

\* the files collectFiles looks for, in the order it lists them: MEMORY.md,
\* then the .md files of memory/
Paths == <<"MEMORY.md", "memory/log.md">>

\* String.prototype.trim
RECURSIVE trim(_)
trim(s) ==
  IF Len(s) = 0 THEN s
  ELSE IF s[1] = " " THEN trim(Tail(s))
  ELSE IF s[Len(s)] = " " THEN trim(SubSeq(s, 1, Len(s) - 1))
  ELSE s

\* the number of characters c at the start of the line
RECURSIVE leading(_, _)
leading(line, c) ==
  IF Len(line) > 0 /\ line[1] = c THEN 1 + leading(Tail(line), c) ELSE 0

\* line.match(/^(#{1,4})\s+(.+)/)
isHeading(line) ==
  LET n == leading(line, "#")
      rest == SubSeq(line, n + 1, Len(line))
  IN /\ n \in 1..4
     /\ leading(rest, " ") >= 1
     /\ Len(rest) > leading(rest, " ")

\* /^[-*]\s+/.test(line)
isBullet(line) ==
  /\ Len(line) >= 2
  /\ line[1] \in {"-", "*"}
  /\ line[2] = " "

\* /^\s{2,}[-*]\s+/.test(line)
isSubBullet(line) ==
  LET n == leading(line, " ")
  IN n >= 2 /\ isBullet(SubSeq(line, n + 1, Len(line)))

\* the text of a heading or of a bullet: the line without its marker, trimmed
afterMarker(line) ==
  LET body == trim(line)
      n == IF body[1] = "#" THEN leading(body, "#") ELSE 1
  IN trim(SubSeq(body, n + 1, Len(body)))

\* flushItem: the current item joins the items of the section
flushItem(p) ==
  IF Len(p.currentItem) > 0
  THEN LET text == trim(join(p.currentItem))
       IN [p EXCEPT !.currentItems = IF Len(text) > 0 THEN Append(@, text) ELSE @,
                    !.currentItem = <<>>]
  ELSE p

\* flushSection: the current section joins the sections when it has items
flushSection(p) ==
  LET f == flushItem(p)
  IN [f EXCEPT !.sections = IF Len(f.currentItems) > 0
                            THEN Append(@, [heading |-> f.currentHeading,
                                            items |-> f.currentItems])
                            ELSE @,
               !.currentItems = <<>>]

\* one round of the loop of parseSections
parseLine(p, line) ==
  IF isHeading(line)
  THEN [flushSection(p) EXCEPT !.currentHeading = afterMarker(line)]
  ELSE IF isBullet(line)
  THEN [flushItem(p) EXCEPT !.currentItem = <<afterMarker(line)>>]
  ELSE IF isSubBullet(line)
  THEN [p EXCEPT !.currentItem = Append(@, afterMarker(line))]
  ELSE IF leading(line, " ") >= 2 /\ Len(p.currentItem) > 0
  THEN [p EXCEPT !.currentItem = Append(@, trim(line))]
  ELSE IF Len(trim(line)) = 0
  THEN flushItem(p)
  ELSE [p EXCEPT !.currentItem = Append(@, trim(line))]

RECURSIVE parseLines(_, _)
parseLines(p, lines) ==
  IF Len(lines) = 0 THEN p
  ELSE parseLines(parseLine(p, lines[1]), Tail(lines))

\* SyncEngine.parseSections
parseSections(lines) ==
  flushSection(parseLines([ sections |-> <<>>, currentHeading |-> <<"T", "o", "p">>,
                            currentItems |-> <<>>, currentItem |-> <<>> ],
                          lines)).sections

\* the text includes one of the patterns (the word boundaries of the regular
\* expressions are not modelled: no content of the catalogue has one of the
\* patterns at all)
anyOf(text, patterns) == \E pattern \in patterns : includes(text, pattern)

\* SyncEngine.classifySource
classifySource(text) ==
  LET lower == toLowerCase(text)
  IN IF anyOf(lower, { <<"t", "o", "l", "d", " ", "m", "e">>,
                       <<"s", "a", "i", "d">>,
                       <<"h", "i", "s", " ", "w", "o", "r", "d">>,
                       <<"h", "e", "r", " ", "w", "o", "r", "d">>,
                       <<"t", "h", "e", "y", " ", "s", "a", "i", "d">> })
     THEN "told"
     ELSE IF anyOf(lower, { <<"s", "h", "a", "u", "n", "'", "s", " ", "g", "u", "i", "d", "a", "n", "c", "e">>,
                       <<"s", "h", "a", "u", "n", "'", "s", " ", "w", "o", "r", "d", "s">>,
                       <<"s", "h", "a", "u", "n", " ", "a", "s", "k", "e", "d">>,
                       <<"s", "h", "a", "u", "n", " ", "w", "a", "n", "t", "s">>,
                       <<"s", "h", "a", "u", "n", " ", "o", "f", "f", "e", "r", "e", "d">>,
                       <<"s", "h", "a", "u", "n", " ", "a", "p", "p", "r", "o", "v", "e", "d">>,
                       <<"s", "h", "a", "u", "n", " ", "f", "a", "c", "i", "l", "i", "t", "a", "t">> })
     THEN "told"
     ELSE IF anyOf(lower, { <<"i", " ", "r", "e", "a", "d">>,
                       <<"a", "r", "t", "i", "c", "l", "e">>,
                       <<"b", "l", "o", "g">>,
                       <<"d", "o", "c", "u", "m", "e", "n", "t", "a", "t", "i", "o", "n">>,
                       <<"f", "o", "u", "n", "d", " ", "o", "n">> })
     THEN "read"
     ELSE IF anyOf(lower, { <<"i", " ", "t", "h", "i", "n", "k">>,
                       <<"i", " ", "b", "e", "l", "i", "e", "v", "e">>,
                       <<"s", "e", "e", "m", "s", " ", "l", "i", "k", "e">>,
                       <<"p", "r", "o", "b", "a", "b", "l", "y">>,
                       <<"l", "i", "k", "e", "l", "y">>,
                       <<"s", "t", "r", "o", "n", "g", " ", "c", "a", "n", "d", "i", "d", "a", "t", "e">> })
     THEN "inferred"
     ELSE IF anyOf(lower, { <<"i", " ", "n", "o", "t", "i", "c", "e", "d">>,
                       <<"i", " ", "o", "b", "s", "e", "r", "v", "e", "d">>,
                       <<"i", " ", "s", "a", "w">> })
     THEN "observed"
     ELSE IF anyOf(lower, { <<"i", " ", "d", "i", "d">>,
                       <<"i", " ", "b", "u", "i", "l", "t">>,
                       <<"i", " ", "f", "o", "u", "n", "d">>,
                       <<"i", " ", "t", "r", "i", "e", "d">>,
                       <<"i", " ", "c", "r", "e", "a", "t", "e", "d">>,
                       <<"i", "m", "p", "l", "e", "m", "e", "n", "t", "e", "d">>,
                       <<"c", "o", "n", "f", "i", "g", "u", "r", "e", "d">>,
                       <<"s", "e", "t", " ", "u", "p">>,
                       <<"p", "u", "b", "l", "i", "s", "h", "e", "d">> })
     THEN "experienced"
     ELSE IF anyOf(lower, { <<"a", "p", "i">>,
                       <<"e", "n", "d", "p", "o", "i", "n", "t">>,
                       <<"c", "o", "n", "f", "i", "g">>,
                       <<"p", "o", "r", "t", " ">>,
                       <<"p", "a", "t", "h", ":">>,
                       <<"t", "o", "k", "e", "n">>,
                       <<"k", "e", "y", ":">>,
                       <<"b", "e", "a", "r", "e", "r">> })
     THEN "experienced"
     ELSE "read"

\* SyncEngine.classifyCategory
classifyCategory(text, heading) ==
  LET lower == toLowerCase(text)
      headingLower == toLowerCase(heading)
  IN IF anyOf(headingLower, { <<"l", "e", "s", "s", "o", "n">>, <<"g", "u", "i", "d", "a", "n", "c", "e">> })
     THEN "observation"
     ELSE IF includes(headingLower, <<"p", "r", "e", "f", "e", "r", "e", "n", "c", "e">>)
     THEN "preference"
     ELSE IF includes(headingLower, <<"i", "d", "e", "n", "t", "i", "t", "y">>)
     THEN "fact"
     ELSE IF anyOf(headingLower, { <<"a", "c", "c", "o", "u", "n", "t">>, <<"c", "o", "n", "f", "i", "g">> })
     THEN "procedure"
     ELSE IF includes(headingLower, <<"p", "r", "o", "j", "e", "c", "t">>)
     THEN "fact"
     ELSE IF anyOf(lower, { <<"a", "p", "i">>,
                       <<"e", "n", "d", "p", "o", "i", "n", "t">>,
                       <<"c", "o", "m", "m", "a", "n", "d">>,
                       <<"c", "o", "n", "f", "i", "g">>,
                       <<"h", "o", "w", " ", "t", "o">>,
                       <<"b", "e", "a", "r", "e", "r">>,
                       <<"t", "o", "k", "e", "n">>,
                       <<"p", "o", "r", "t", " ">> })
     THEN "procedure"
     ELSE IF anyOf(lower, { <<"p", "r", "e", "f", "e", "r">>,
                       <<"l", "i", "k", "e">>,
                       <<"w", "a", "n", "t", "s">>,
                       <<"f", "a", "v", "o", "r", "i", "t", "e">>,
                       <<"d", "o", "n", "'", "t", " ", "l", "i", "k", "e">> })
     THEN "preference"
     ELSE IF anyOf(lower, { <<"i", " ", "t", "h", "i", "n", "k">>,
                       <<"i", " ", "b", "e", "l", "i", "e", "v", "e">>,
                       <<"o", "p", "i", "n", "i", "o", "n">>,
                       <<"s", "t", "r", "o", "n", "g", " ", "c", "a", "n", "d", "i", "d", "a", "t", "e">> })
     THEN "opinion"
     ELSE IF anyOf(lower, { <<"h", "a", "p", "p", "e", "n", "e", "d">>,
                       <<"b", "o", "r", "n">>,
                       <<"c", "r", "e", "a", "t", "e", "d">>,
                       <<"s", "t", "a", "r", "t", "e", "d">>,
                       <<"l", "a", "u", "n", "c", "h", "e", "d">>,
                       <<"p", "u", "b", "l", "i", "s", "h", "e", "d">>,
                       <<"s", "e", "t", " ", "u", "p">> })
     THEN "event"
     ELSE IF anyOf(lower, { <<"i", "s", " ", "a", " ">>,
                       <<"w", "o", "r", "k", "s", " ", "a", "t">>,
                       <<"l", "i", "v", "e", "s", " ", "i", "n">>,
                       <<"f", "r", "i", "e", "n", "d">>,
                       <<"p", "e", "e", "r">>,
                       <<"m", "e", "n", "t", "o", "r">>,
                       <<"h", "u", "m", "a", "n">>,
                       <<"a", "g", "e", "n", "t">> })
     THEN "relationship"
     ELSE "fact"

\* the patterns of extractEntities with the entity each stands for
EntityPatterns ==
  << [pattern |-> <<"s", "h", "a", "u", "n">>, id |-> "shaun"],
     [pattern |-> <<"@", "o", "s", "c", "a", "r", "m", "i", "i", "k", "e">>, id |-> "shaun"],
     [pattern |-> <<"m", "a", "n", "t", "i", "s">>, id |-> "mantis"],
     [pattern |-> <<"m", "o", "o", "n", "s", "h", "o", "t">>, id |-> "moonshot"],
     [pattern |-> <<"s", "u", "p", "e", "r", "-", "e", "u", "r", "e", "k", "a">>, id |-> "moonshot"],
     [pattern |-> <<"m", "o", "l", "t", " ", "r", "e", "p", "o", "r", "t">>, id |-> "molt-report"],
     [pattern |-> <<"t", "h", "e", "m", "o", "l", "t", "r", "e", "p", "o", "r", "t">>, id |-> "molt-report"],
     [pattern |-> <<"m", "o", "l", "t", "b", "o", "o", "k">>, id |-> "moltbook"],
     [pattern |-> <<"o", "p", "e", "n", "c", "l", "a", "w">>, id |-> "openclaw"],
     [pattern |-> <<"c", "l", "a", "w", "d", "h", "u", "b">>, id |-> "clawdhub"],
     [pattern |-> <<"a", "g", "e", "n", "t", "m", "a", "i", "l">>, id |-> "agentmail"],
     [pattern |-> <<"r", "u", "f", "i", "o">>, id |-> "rufio"],
     [pattern |-> <<"a", "g", "e", "n", "t", "-", "m", "e", "m", "o", "r", "y">>, id |-> "agent-memory"],
     [pattern |-> <<"c", "l", "a", "w", "d", "i", "a">>, id |-> "clawdia"] >>

\* a sequence without its repetitions ([...new Set(entities)])
RECURSIVE unique(_)
unique(ws) ==
  IF Len(ws) = 0 THEN <<>>
  ELSE LET front == unique(SubSeq(ws, 1, Len(ws) - 1))
           w == ws[Len(ws)]
       IN IF w \in Range(front) THEN front ELSE Append(front, w)

\* SyncEngine.extractEntities
extractEntities(text) ==
  LET lower == toLowerCase(text)
      hit == SelectSeq(EntityPatterns, LAMBDA e : includes(lower, e.pattern))
  IN unique([i \in 1..Len(hit) |-> hit[i].id])

\* SyncEngine.shouldPin
shouldPin(heading) ==
  LET lower == toLowerCase(heading)
  IN includes(lower, <<"i", "d", "e", "n", "t", "i", "t", "y">>) \/ includes(lower, <<"l", "e", "s", "s", "o", "n">>)

\* the key of a content of the catalogue
KeyOf(text) == CHOOSE c \in ContentKeys : ContentText[c] = text

\* the facts of one section
sectionFacts(section) ==
  LET items == SelectSeq(section.items, LAMBDA item : Len(trim(item)) > 0)
  IN [i \in 1..Len(items) |->
        LET cleaned == trim(items[i])
        IN [ content |-> KeyOf(cleaned),
             sourceType |-> classifySource(cleaned),
             category |-> classifyCategory(cleaned, section.heading),
             entities |-> extractEntities(cleaned),
             pinned |-> shouldPin(section.heading) ]]

RECURSIVE factsOf(_)
factsOf(sections) ==
  IF Len(sections) = 0 THEN <<>>
  ELSE sectionFacts(sections[1]) \o factsOf(Tail(sections))

\* SyncEngine.extractFacts
extractFacts(lines) == factsOf(parseSections(lines))

\* extractFacts of every file content
Facts == [k \in FileKeys |-> extractFacts(FileLines[k])]

\* /^~~.*~~$/.test(content)
struckThrough(content) ==
  /\ Len(content) >= 4
  /\ SubSeq(content, 1, 2) = <<"~", "~">>
  /\ SubSeq(content, Len(content) - 1, Len(content)) = <<"~", "~">>

\* /^(---+|\*\*\*+|===+)$/.test(content)
ruleLine(content) ==
  /\ Len(content) >= 3
  /\ content[1] \in {"-", "*", "="}
  /\ \A i \in 1..Len(content) : content[i] = content[1]

Digits == {"0", "1", "2", "3", "4", "5", "6", "7", "8", "9"}

\* /^\d{4}-\d{2}-\d{2}$/.test(content.trim())
dateOnly(content) ==
  LET d == trim(content)
  IN /\ Len(d) = 10
     /\ \A i \in 1..10 : IF i \in {5, 8} THEN d[i] = "-" ELSE d[i] \in Digits

\* /^(TODO|FIXME|NOTE|TBD):?\s*$/.test(content)
markerOnly(content) ==
  \E word \in { <<"T", "O", "D", "O">>,
                       <<"F", "I", "X", "M", "E">>,
                       <<"N", "O", "T", "E">>,
                       <<"T", "B", "D">> } :
    /\ Len(content) >= Len(word)
    /\ SubSeq(content, 1, Len(word)) = word
    /\ LET rest == SubSeq(content, Len(word) + 1, Len(content))
       IN Len(trim(IF Len(rest) > 0 /\ rest[1] = ":" THEN Tail(rest) ELSE rest)) = 0

\* SyncEngine.isNoise
isNoise(content) ==
  \/ Len(content) < 20
  \/ struckThrough(content)
  \/ ruleLine(content)
  \/ dateOnly(content)
  \/ markerOnly(content)

\* isNoise of every content of the catalogue
Noise == [c \in ContentKeys |-> isNoise(ContentText[c])]

\* SELECT memory_id FROM synced_memories WHERE file_path = ?, with no row
oldMemoriesKept(S, path) == {}

\* SELECT memory_id FROM synced_memories WHERE file_path = ?
oldMemories(S, path) == {m[1] : m \in {q \in S.synced_memories : q[2] = path}}

\* the loop over the old memories of a file: deleteMemory of each
RECURSIVE deleteAll(_, _)
deleteAll(S, ids) ==
  IF Len(ids) = 0 THEN S
  ELSE deleteAll(deleteMemory(S, ids[1]), Tail(ids))

\* the CreateMemoryInput sync makes of a fact (no content of the catalogue is
\* longer than 120 characters, so the summary is undefined)
factInput(fact) ==
  [ content |-> fact.content, summary |-> None, type |-> fact.sourceType,
    actor |-> None, context |-> "synced", entities |-> fact.entities,
    category |-> fact.category, pinned |-> fact.pinned ]

\* the loop over the facts of a file: a noise fact is skipped, another is
\* stored and tracked
RECURSIVE storeFacts(_, _, _, _)
storeFacts(r, path, facts, t) ==
  IF Len(facts) = 0 THEN r
  ELSE LET fact == facts[1]
           r1 == IF Noise[fact.content]
                 THEN [r EXCEPT !.stats.factsSkipped = @ + 1]
                 ELSE [r EXCEPT
                         !.store = [createMemory(r.store, factInput(fact), t) EXCEPT
                                      !.synced_memories = @ \cup {<<r.store.nextId, path>>}],
                         !.stats.factsExtracted = @ + 1]
       IN storeFacts(r1, path, Tail(facts), t)

\* INSERT OR REPLACE INTO synced_files
trackFile(S, path, row) ==
  [S EXCEPT !.synced_files = [p \in DOMAIN @ \cup {path} |-> IF p = path THEN row ELSE @[p]]]

\* one round of the loop of sync over the files: a file whose hash is the
\* stored one is skipped unless the sync is forced; of another the old
\* memories are deleted, the facts stored and the file tracked
syncFile(r, path, key, force, t) ==
  IF /\ ~force
     /\ path \in DOMAIN r.store.synced_files
     /\ r.store.synced_files[path].content_hash = Hash[key]
  THEN r
  ELSE LET old == Ascending(oldMemories(r.store, path))
           S1 == deleteAll(r.store, old)
           S2 == [S1 EXCEPT !.synced_memories = {q \in @ : q[2] # path}]
           r1 == [ store |-> S2,
                   stats |-> [r.stats EXCEPT !.filesChanged = @ + 1,
                                             !.oldFactsRemoved = @ + Len(old)] ]
           r2 == storeFacts(r1, path, Facts[key], t)
       IN [r2 EXCEPT !.store = trackFile(@, path,
                                 [ content_hash |-> Hash[key], last_synced |-> t,
                                   facts_count |-> Len(Facts[key]) - r2.stats.factsSkipped ])]

RECURSIVE syncFiles(_, _, _, _, _)
syncFiles(r, paths, files, force, t) ==
  IF Len(paths) = 0 THEN r
  ELSE syncFiles(syncFile(r, paths[1], files[paths[1]], force, t),
                 Tail(paths), files, force, t)

\* collectFiles: the files the workspace has
collectFiles(files) == SelectSeq(Paths, LAMBDA path : files[path] # None)

\* SyncEngine.sync: the store after it and the stats it returns
sync(S, files, force, t) ==
  syncFiles([ store |-> S,
              stats |-> [ filesScanned |-> Len(collectFiles(files)), filesChanged |-> 0,
                          factsExtracted |-> 0, factsSkipped |-> 0,
                          oldFactsRemoved |-> 0 ] ],
            collectFiles(files), files, force, t)

\* ------------------------------------------------------------------ inputs

\* a CreateMemoryInput without its optional decayRate and pinned
Input(content, type, actor, context, entities, category) ==
  [ content |-> content, summary |-> None, type |-> type, actor |-> actor,
    context |-> context, entities |-> entities, category |-> category ]

\* the CreateMemoryInput values the operations are given
Inputs ==
  { Input("enabled", "told", "shaun", None, <<"svc">>, "fact"),
    Input("confirmed", "experienced", None, "testing", <<"svc">>, "fact"),
    Input("disabled", "told", "shaun", None, <<"svc">>, "fact"),
    Input("disabled", "inferred", None, None, <<"svc">>, "opinion") @@ [pinned |-> TRUE],
    Input("short", "read", "docs", "manual", <<"ops", "svc">>, "fact") @@ [decayRate |-> 100],
    Input("enabled", "observed", None, None, <<"ops">>, "fact") @@ [pinned |-> FALSE] }

\* the partial updates updateMemory is given
Updates ==
  { [pinned |-> TRUE], [pinned |-> FALSE], [decayRate |-> 50],
    [category |-> "event"], [content |-> "short"] }

\* the limits findContradictions is given (50 is its default)
Limits == {0, 1, 2, 50}

\* a RecallQuery with its defaults filled in (text is also the text of
\* quickRecall, entities the entity of entityRecall)
Query(text, context, entities, categories, minConfidence, includeDecayed, limit) ==
  [ text |-> text, context |-> context, entities |-> entities,
    categories |-> categories, minConfidence |-> minConfidence,
    minRelevance |-> RelOne \div 10, limit |-> limit,
    includeDecayed |-> includeDecayed ]

\* the query of an operation that takes none
NoQuery == Query(<<>>, None, <<>>, <<>>, 30, FALSE, 10)

\* the queries recall is given without an embedder: with and without
\* entities, categories and a limit; with a context; with a higher
\* minConfidence or with includeDecayed; with the limit 0 or a negative limit
Queries ==
  { Query(text, None, entities, categories, 30, FALSE, limit) :
      text \in QueryTexts, entities \in {<<>>, <<"ops">>, <<"ops", "svc">>},
      categories \in {<<>>, <<"opinion">>}, limit \in {1, 10} }
  \cup { Query(text, context, entities, <<>>, 30, FALSE, 10) :
           text \in QueryTexts, context \in {"testing", "both"},
           entities \in {<<>>, <<"ops">>} }
  \cup { Query(text, None, <<>>, <<>>, minConfidence, includeDecayed, 10) :
           text \in QueryTexts, minConfidence \in {30, 60},
           includeDecayed \in BOOLEAN }
  \cup { Query(text, None, <<>>, <<>>, 30, FALSE, limit) :
           text \in QueryTexts, limit \in {-1, 0} }

\* the queries recall is given with an embedder
EmbeddedQueries ==
  { Query(text, None, <<>>, categories, 30, FALSE, 10) :
      text \in QueryTexts, categories \in {<<>>, <<"opinion">>} }

\* ----------------------------------------------------------------- actions

NoOp == [ op |-> "init", id |-> 0, limit |-> 0, failAt |-> 0, results |-> <<>>,
          pre |-> EmptyStore, at |-> 0, failed |-> FALSE, used |-> {}, touched |-> {},
          query |-> NoQuery, embedder |-> None ]

Init ==
  /\ store = EmptyStore
  /\ now = 0
  /\ steps = MaxSteps
  /\ last = NoOp

\* the record of an operation: its name and arguments (failAt is the write that
\* was made to fail), what it returned (for updateMemory: the updates it was
\* given), whether it threw, the store before it
\* and the time of the call, and the memories read or updated since the last
\* completed sweep, before the call (used) and after it (touched)
Record(op, id, limit, failAt, results, failed) ==
  [ op |-> op, id |-> id, limit |-> limit, failAt |-> failAt, results |-> results,
    pre |-> store, at |-> now, failed |-> failed, used |-> last.touched,
    touched |-> IF op \in {"getMemory", "updateMemory", "verifyMemory"}
                THEN last.touched \cup {id}
                ELSE IF op = "applyDecay" /\ ~failed THEN {}
                ELSE last.touched,
    query |-> NoQuery, embedder |-> None ]

CreateMemory ==
  /\ steps > 0
  /\ store.nextId <= MaxFacts
  /\ \E input \in Inputs :
       /\ store' = createMemory(store, input, now)
       /\ last' = Record("createMemory", store.nextId, 0, 0, <<>>, FALSE)
  /\ steps' = steps - 1
  /\ UNCHANGED now

GetMemoryOf(ids) ==
  /\ steps > 0
  /\ \E id \in ids :
       /\ store' = getMemory(store, id, now)
       /\ last' = Record("getMemory", id, 0, 0, <<>>, FALSE)
  /\ steps' = steps - 1
  /\ UNCHANGED now

GetMemory == GetMemoryOf(Ids(store))

UpdateMemory ==
  /\ steps > 0
  /\ \E id \in Ids(store), updates \in Updates :
       /\ store' = updateMemory(store, id, updates, now)
       /\ last' = Record("updateMemory", id, 0, 0, <<updates>>, FALSE)
  /\ steps' = steps - 1
  /\ UNCHANGED now

\* time passes: DayStep days, at most ticks times
TickTo(ticks) ==
  /\ now < ticks * DayStep
  /\ now' = now + DayStep
  /\ UNCHANGED <<store, steps, last>>

Tick == TickTo(MaxTicks)

ApplyDecay ==
  /\ steps > 0
  /\ \E failAt \in 0..Len(decayWrites(store, now)) :
       LET r == applyDecay(store, now, failAt)
       IN /\ store' = r.store
          /\ last' = Record("applyDecay", 0, 0, failAt, <<>>, r.failed)
  /\ steps' = steps - 1
  /\ UNCHANGED now

CheckCorroboration ==
  /\ steps > 0
  /\ \E id \in Ids(store) :
       \E failAt \in 0..Len(checkCorroboration(store, id, now, 0).results) :
         LET r == checkCorroboration(store, id, now, failAt)
         IN /\ store' = r.store
            /\ last' = Record("checkCorroboration", id, 0, failAt, r.results, r.failed)
  /\ steps' = steps - 1
  /\ UNCHANGED now

FindContradictions ==
  /\ steps > 0
  /\ \E limit \in Limits :
       \E failAt \in 0..(2 * Len(findContradictions(store, limit, now, 0).results)) :
         LET r == findContradictions(store, limit, now, failAt)
         IN /\ store' = r.store
            /\ last' = Record("findContradictions", 0, limit, failAt, r.results, r.failed)
  /\ steps' = steps - 1
  /\ UNCHANGED now

VerifyMemory ==
  /\ steps > 0
  /\ \E id \in Ids(store) :
       \E failAt \in 0..(IF verifyMemory(store, id, now, 0).verified THEN 1 ELSE 0) :
         LET r == verifyMemory(store, id, now, failAt)
         IN /\ store' = r.store
            /\ last' = Record("verifyMemory", id, 0, failAt,
                              <<[verified |-> r.verified,
                                 corroborations |-> r.corroborations,
                                 newConfidence |-> r.newConfidence]>>, r.failed)
  /\ steps' = steps - 1
  /\ UNCHANGED now

Next ==
  \/ CreateMemory
  \/ GetMemory
  \/ UpdateMemory
  \/ Tick
  \/ ApplyDecay
  \/ CheckCorroboration
  \/ FindContradictions
  \/ VerifyMemory

Spec == Init /\ [][Next]_vars

\* ------------------------------------------------- runs from a filled store

\* the store after createMemory of each input of the sequence, at time t
RECURSIVE created(_, _)
created(inputs, t) ==
  IF Len(inputs) = 0 THEN EmptyStore
  ELSE createMemory(created(SubSeq(inputs, 1, Len(inputs) - 1), t),
                    inputs[Len(inputs)], t)

\* Decay runs: one memory, then reads, updates, time and sweeps
InitDecay ==
  /\ \E input \in Inputs : store = created(<<input>>, 0)
  /\ now = 0
  /\ steps = DecaySteps
  /\ last = NoOp

LongTick == TickTo(DecayTicks)

NextDecay ==
  \/ GetMemory
  \/ UpdateMemory
  \/ LongTick
  \/ ApplyDecay

SpecDecay == InitDecay /\ [][NextDecay]_vars

\* Engine runs: CorpusSize memories, then engine calls
InitEngine ==
  /\ \E inputs \in [1..CorpusSize -> Inputs] : store = created(inputs, 0)
  /\ now = 0
  /\ steps = EngineSteps
  /\ last = NoOp

NextEngine ==
  \/ CheckCorroboration
  \/ FindContradictions

SpecEngine == InitEngine /\ [][NextEngine]_vars

\* Corroboration runs: PairSize memories, then repeated corroboration checks
\* and verifications
InitPair ==
  /\ \E inputs \in [1..PairSize -> Inputs] : store = created(inputs, 0)
  /\ now = 0
  /\ steps = PairSteps
  /\ last = NoOp

NextPair ==
  \/ CheckCorroboration
  \/ VerifyMemory

SpecPair == InitPair /\ [][NextPair]_vars

\* Frequency runs: two memories created from the same input, the first one
\* read up to UseCount times, then time and sweeps
UseCount == 20

InitFreq ==
  /\ \E input \in Inputs : store = created(<<input, input>>, 0)
  /\ now = 0
  /\ steps = UseCount + 1
  /\ last = NoOp

GetFrequent == GetMemoryOf({1})

NextFreq ==
  \/ GetFrequent
  \/ Tick
  \/ ApplyDecay

SpecFreq == InitFreq /\ [][NextFreq]_vars

\* Source runs: SourceSize memories about one entity that differ in source
\* type, actor and context, then corroboration checks
SourceInputs ==
  { Input(content, type, actor, context, <<"svc">>, "fact") :
      content \in {"enabled", "confirmed"}, type \in {"told", "experienced"},
      actor \in {None, "shaun", "docs"}, context \in {None, "testing"} }

InitSource ==
  /\ \E inputs \in [1..SourceSize -> SourceInputs] : store = created(inputs, 0)
  /\ now = 0
  /\ steps = SourceSteps
  /\ last = NoOp

NextSource == CheckCorroboration

SpecSource == InitSource /\ [][NextSource]_vars

\* Counter runs: CountSize memories, then any calls of the engine
InitCount ==
  /\ \E inputs \in [1..CountSize -> Inputs] : store = created(inputs, 0)
  /\ now = 0
  /\ steps = CountSteps
  /\ last = NoOp

NextCount ==
  \/ CheckCorroboration
  \/ FindContradictions
  \/ VerifyMemory

SpecCount == InitCount /\ [][NextCount]_vars

\* Verification runs: VerifySize memories, then verifications
InitVerify ==
  /\ \E inputs \in [1..VerifySize -> Inputs] : store = created(inputs, 0)
  /\ now = 0
  /\ steps = VerifySteps
  /\ last = NoOp

NextVerify == VerifyMemory

SpecVerify == InitVerify /\ [][NextVerify]_vars

\* Creation runs: memories of every source type, with and without actor and
\* context, created in an empty store
AttributedInputs ==
  { Input("enabled", type, actor, context, <<>>, "fact") :
      type \in SourceTypes, actor \in {None, "shaun", "docs"},
      context \in {None, "testing"} }

InitCreate ==
  /\ store = EmptyStore
  /\ now = 0
  /\ steps = CreateSteps
  /\ last = NoOp

CreateAttributed ==
  /\ steps > 0
  /\ \E input \in AttributedInputs :
       /\ store' = createMemory(store, input, now)
       /\ last' = Record("createMemory", store.nextId, 0, 0, <<>>, FALSE)
  /\ steps' = steps - 1
  /\ UNCHANGED now

NextCreate == CreateAttributed

SpecCreate == InitCreate /\ [][NextCreate]_vars

\* Recall runs: RecallSize memories, created together or days apart, fresh
\* or left idle and swept, then recalls
RecallInputs ==
  { Input("enabled", "told", "shaun", None, <<"svc">>, "fact"),
    Input("confirmed", "experienced", None, "testing", <<"svc">>, "fact"),
    Input("disabled", "inferred", None, None, <<"svc">>, "opinion") @@ [pinned |-> TRUE],
    Input("short", "read", "docs", "manual", <<"ops", "svc">>, "fact") @@ [decayRate |-> 100],
    Input("disabled", "told", "shaun", None, <<"svc">>, "fact"),
    Input("short", "told", "shaun", None, <<"ops">>, "fact") }

\* the store after createMemory of each input of the sequence, the first at
\* time 0 and each later one gap days after the one before
RECURSIVE createdApart(_, _)
createdApart(inputs, gap) ==
  IF Len(inputs) = 0 THEN EmptyStore
  ELSE createMemory(createdApart(SubSeq(inputs, 1, Len(inputs) - 1), gap),
                    inputs[Len(inputs)], (Len(inputs) - 1) * gap)

InitRecall ==
  /\ \E inputs \in [1..RecallSize -> RecallInputs], gap \in {0, DayStep},
        idle \in {0, IdleDays} :
       LET t == (RecallSize - 1) * gap + idle
       IN /\ store = IF idle = 0 THEN createdApart(inputs, gap)
                      ELSE applyDecay(createdApart(inputs, gap), t, 0).store
          /\ now = t
  /\ steps = RecallSteps
  /\ last = NoOp

\* the record of a recall: its query, its embedder, and the memories it read
\* with getMemory
RecordRecall(op, query, embedder, r) ==
  [ Record(op, 0, query.limit, 0, r.results, r.failed) EXCEPT
      !.query = query,
      !.embedder = embedder,
      !.touched = @ \cup {id \in Ids(store) :
                            r.store.memories[id] # store.memories[id]} ]

\* recall of an engine constructed with one of the embedders, given one of
\* the queries
RecallOf(queries, embedders) ==
  /\ steps > 0
  /\ \E query \in queries, embedder \in embedders :
       LET r == recall(store, query, embedder, now)
       IN /\ store' = r.store
          /\ last' = RecordRecall("recall", query, embedder, r)
  /\ steps' = steps - 1
  /\ UNCHANGED now

\* recall of an engine constructed without an embedder
Recall == RecallOf(Queries, {None})

\* recall of an engine constructed with an embedder
RecallEmbedded == RecallOf(EmbeddedQueries, Embedders \ {None})

QuickRecallOf(texts, limits) ==
  /\ steps > 0
  /\ \E text \in texts, limit \in limits :
       LET query == [NoQuery EXCEPT !.text = text, !.limit = limit]
           r == [store |-> store, results |-> quickRecall(store, text, limit),
                 failed |-> FALSE]
       IN /\ store' = r.store
          /\ last' = RecordRecall("quickRecall", query, None, r)
  /\ steps' = steps - 1
  /\ UNCHANGED now

QuickRecall == QuickRecallOf(QueryTexts, {1, 5})

EntityRecallOf(entityIds, limits) ==
  /\ steps > 0
  /\ \E entityId \in entityIds, limit \in limits :
       LET query == [NoQuery EXCEPT !.entities = <<entityId>>, !.limit = limit]
           r == [store |-> store, results |-> entityRecall(store, entityId, limit),
                 failed |-> FALSE]
       IN /\ store' = r.store
          /\ last' = RecordRecall("entityRecall", query, None, r)
  /\ steps' = steps - 1
  /\ UNCHANGED now

EntityRecall == EntityRecallOf({"ops", "svc"}, {1, 20})

NextRecall ==
  \/ Recall
  \/ RecallEmbedded
  \/ QuickRecall
  \/ EntityRecall

SpecRecall == InitRecall /\ [][NextRecall]_vars

\* Ranking runs: RankSize memories and the recalls that rank and filter them
RankInputs ==
  { Input("enabled", "told", "shaun", None, <<"svc">>, "fact"),
    Input("confirmed", "experienced", None, "testing", <<"svc">>, "fact"),
    Input("disabled", "inferred", None, None, <<"svc">>, "opinion") @@ [pinned |-> TRUE],
    Input("short", "read", "docs", "manual", <<"ops", "svc">>, "fact") @@ [decayRate |-> 100] }

RankTexts == { <<"s", "e", "r", "v", "i", "c", "e">>,
               <<"e", "n", "a", "b", "l", "e", "d">> }

RankQueries ==
  { Query(text, None, entities, categories, 30, FALSE, 10) :
      text \in RankTexts, entities \in {<<>>, <<"ops">>},
      categories \in {<<>>, <<"opinion">>} }
  \cup { Query(text, None, <<>>, <<>>, minConfidence, includeDecayed, 10) :
           text \in RankTexts, minConfidence \in {30, 60},
           includeDecayed \in BOOLEAN }
  \cup { Query(text, "testing", <<>>, <<>>, 30, FALSE, limit) :
           text \in RankTexts, limit \in {1, 10} }

RankEmbeddedQueries ==
  { Query(text, None, <<>>, categories, 30, FALSE, 10) :
      text \in RankTexts, categories \in {<<>>, <<"opinion">>} }

InitRank ==
  /\ \E inputs \in [1..RankSize -> RankInputs], idle \in {0, IdleDays} :
       /\ store = IF idle = 0 THEN created(inputs, 0)
                  ELSE applyDecay(created(inputs, 0), idle, 0).store
       /\ now = idle
  /\ steps = RankSteps
  /\ last = NoOp

RankRecall == RecallOf(RankQueries, {None})

RankRecallEmbedded == RecallOf(RankEmbeddedQueries, {"ok"})

RankQuickRecall == QuickRecallOf(RankTexts, {1, 5})

RankEntityRecall == EntityRecallOf({"ops", "svc"}, {20})

NextRank ==
  \/ RankRecall
  \/ RankRecallEmbedded
  \/ RankQuickRecall
  \/ RankEntityRecall

SpecRank == InitRank /\ [][NextRank]_vars

\* ---- runs of the sync engine: syncs of a workspace whose files change
\* between them, with memories created and deleted by hand in between

\* the states of the workspace: MEMORY.md is absent or has one of the
\* contents, memory/log.md is absent or has the first content
Workspaces ==
  { [path \in Range(Paths) |-> IF path = "MEMORY.md" THEN main ELSE log] :
      main \in FileKeys \cup {None}, log \in {None, "original"} }

\* the memories created by hand: with one entity, with two, and with the
\* same entity listed twice
SyncInputs ==
  { Input("enabled", "told", "shaun", None, <<"svc">>, "fact"),
    Input("short", "read", "docs", "manual", <<"ops", "svc">>, "fact"),
    Input("disabled", "told", "shaun", None, <<"svc", "svc">>, "fact") }

InitSync ==
  /\ store = EmptyStore
  /\ now = 0
  /\ steps = SyncSteps
  /\ last = NoOp

Sync ==
  /\ steps > 0
  /\ \E files \in Workspaces, force \in BOOLEAN :
       LET r == sync(store, files, force, now)
       IN /\ store' = r.store
          /\ last' = Record("sync", 0, 0, 0,
                            <<[stats |-> r.stats, files |-> files, force |-> force]>>,
                            FALSE)
  /\ steps' = steps - 1
  /\ UNCHANGED now

SyncCreateMemory ==
  /\ steps > 0
  /\ \E input \in SyncInputs :
       /\ store' = createMemory(store, input, now)
       /\ last' = Record("createMemory", store.nextId, 0, 0, <<input>>, FALSE)
  /\ steps' = steps - 1
  /\ UNCHANGED now

DeleteMemory ==
  /\ steps > 0
  /\ \E id \in Ids(store) :
       /\ store' = deleteMemory(store, id)
       /\ last' = Record("deleteMemory", id, 0, 0, <<>>, FALSE)
  /\ steps' = steps - 1
  /\ UNCHANGED now

NextSync ==
  \/ Sync
  \/ SyncCreateMemory
  \/ DeleteMemory

SpecSync == InitSync /\ [][NextSync]_vars

\* ---- applications of computeMatchScore to channel scores of a grid

\* the channel scores of the grid: 0, 1/MatchGrid, ..., 1
ChannelScores == {(i * MatchOne) \div MatchGrid : i \in 0..MatchGrid}

InitMatch ==
  /\ store = EmptyStore
  /\ now = 0
  /\ steps = 0
  /\ \E scores \in [text : ChannelScores, semantic : ChannelScores, entity : ChannelScores] :
       last = [NoOp EXCEPT !.results = <<scores>>]

ComputeMatchScore ==
  /\ last.op = "init"
  /\ last' = Record("computeMatchScore", 0, 0, 0,
                    <<[ scores |-> last.results[1],
                        matchScore |-> computeMatchScore(last.results[1]) ]>>, FALSE)
  /\ UNCHANGED <<store, now, steps>>

NextMatch == ComputeMatchScore

SpecMatch == InitMatch /\ [][NextMatch]_vars

\* ---- contradiction scans of a store that holds two verbatim copies of a
\* statement and a third memory

\* the statements: every content, about one entity, in one category
CopyInputs ==
  { Input(content, "told", None, None, entities, category) :
      content \in ContentKeys, entities \in {<<"svc">>, <<"ops">>},
      category \in {"fact", "opinion"} }

InitCopies ==
  /\ \E input \in CopyInputs, other \in CopyInputs :
       store = created(<<input, input, other>>, 0)
  /\ now = 0
  /\ steps = CopySteps
  /\ last = NoOp

NextCopies == FindContradictions

SpecCopies == InitCopies /\ [][NextCopies]_vars

\* -------------------------------------------------------------- properties

\* the fields of a stored memory the properties speak of
Score(S, id) == S.memories[id].confidence.score
Relevance(S, id) == S.memories[id].relevanceScore
Unpinned(S) == {id \in Ids(S) : ~S.memories[id].pinned}

\* C1: after any sequence of createMemory, getMemory, updateMemory, applyDecay,
\* checkCorroboration, findContradictions and verifyMemory, every stored memory
\* has a confidence score in [0,1] and a relevance in [0,1].
ScoresInRange ==
  \A id \in Ids(store) :
    /\ Score(store, id) \in 0..ScoreOne
    /\ Relevance(store, id) \in 0..RelOne

\* a corroboration whose boost would take the score above 1 left it at 1
ScoreCappedAtOne ==
  /\ last.op = "checkCorroboration"
  /\ \E i \in DOMAIN last.results :
       /\ last.results[i].oldConfidence + last.results[i].boost > ScoreOne
       /\ Score(store, last.results[i].memoryId) = ScoreOne

\* C2: in every reachable state every pinned memory has relevance exactly 1.0,
\* also after a sweep lowered its relevance and updateMemory then pinned it.
PinnedFullRelevance ==
  \A id \in Ids(store) :
    store.memories[id].pinned => Relevance(store, id) = RelOne

\* C3 as claimed: a sweep never leaves an unpinned memory with a higher
\* relevance than it had before that sweep, also when the memory is read with
\* getMemory between two sweeps.
SweepNeverRaises ==
  last.op = "applyDecay" =>
    \A id \in Unpinned(store) : Relevance(store, id) <= Relevance(last.pre, id)

\* C3: a sweep never leaves an unpinned memory with a higher relevance than it
\* had before that sweep, provided the memory was not read or updated
\* (getMemory, updateMemory, verifyMemory) since the last completed sweep.
SweepNeverRaisesUnused ==
  last.op = "applyDecay" =>
    \A id \in Unpinned(store) \ last.used :
      Relevance(store, id) <= Relevance(last.pre, id)

\* a second sweep lowered further the relevance of a memory nobody used since
\* the sweep before
SweepLoweredUnusedAgain ==
  /\ last.op = "applyDecay"
  /\ ~last.failed
  /\ \E id \in Unpinned(store) \ last.used :
       /\ Relevance(last.pre, id) < RelOne
       /\ Relevance(store, id) < Relevance(last.pre, id)

\* C4: after one sweep, of two unpinned memories with the same decay rate and
\* the same (positive) idle time, the one read UseCount times has a strictly
\* higher relevance than the one never read.
FrequentDecaysSlower ==
  ( /\ last.op = "applyDecay"
    /\ ~last.failed
    /\ Unpinned(store) = {1, 2}
    /\ store.memories[1].decayRate = store.memories[2].decayRate
    /\ store.memories[1].lastAccessed = store.memories[2].lastAccessed
    /\ store.memories[1].lastAccessed < last.at
    /\ store.memories[1].accessCount = UseCount
    /\ store.memories[2].accessCount = 0 )
  => Relevance(store, 1) > Relevance(store, 2)

\* C5: a sweep that fails after some of its writes leaves every eligible
\* (unpinned) memory with its new relevance or every one with its old
\* relevance, never a mixture.
SweepAtomic ==
  last.op = "applyDecay" =>
    \/ \A id \in Unpinned(last.pre) :
         Relevance(store, id) = Relevance(last.pre, id)
    \/ \A id \in Unpinned(last.pre) :
         Relevance(store, id) =
           Max(0, Min(RelOne, MathExp(last.pre.memories[id].decayRate,
                                      last.at - last.pre.memories[id].lastAccessed)))

\* a sweep failed at its second write or later and the store is as before
SweepRolledBack ==
  /\ last.op = "applyDecay"
  /\ last.failed
  /\ last.failAt >= 2
  /\ store = last.pre

\* the confidence columns an engine call changed
Changed == {id \in Ids(last.pre) :
              store.memories[id].confidence # last.pre.memories[id].confidence}

\* C6: when a write fails part-way through one checkCorroboration,
\* findContradictions or verifyMemory call, none of that call's confidence
\* updates remain in the store; in particular no contradiction pair is left
\* with one memory's contradiction count incremented and the other's not.
FailedCallLeavesNoUpdate ==
  (last.op \in {"checkCorroboration", "findContradictions", "verifyMemory"} /\ last.failed)
  => Changed = {}

\* the entries of a memory's basis that refer to the memory other
RefersTo(S, id, other) ==
  \E i \in DOMAIN S.memories[id].confidence.basis :
    /\ S.memories[id].confidence.basis[i].kind = "contradiction"
    /\ S.memories[id].confidence.basis[i].ref = other

\* the number of reported pairs the memory id belongs to
PairsOf(results, id) ==
  Cardinality({i \in DOMAIN results : id \in {results[i].memoryA, results[i].memoryB}})

\* C7: after one findContradictions call every returned pair (A, B) has a
\* basis entry of A referring to B and one of B referring to A in the store,
\* and the contradiction count of each memory has grown by exactly the number
\* of returned pairs it belongs to.
ContradictionsRecorded ==
  (last.op = "findContradictions" /\ ~last.failed) =>
    /\ \A i \in DOMAIN last.results :
         /\ RefersTo(store, last.results[i].memoryA, last.results[i].memoryB)
         /\ RefersTo(store, last.results[i].memoryB, last.results[i].memoryA)
    /\ \A id \in Ids(store) :
         store.memories[id].confidence.contradictions =
           last.pre.memories[id].confidence.contradictions + PairsOf(last.results, id)

\* C8: findContradictions(limit) returns at most limit pairs and changes the
\* confidence of no memory outside the first limit pairs it detected.
LimitRespected ==
  (last.op = "findContradictions" /\ ~last.failed) =>
    /\ Len(last.results) <= last.limit
    /\ Changed \subseteq
         UNION {{last.results[i].memoryA, last.results[i].memoryB} :
                  i \in {k \in DOMAIN last.results : k <= last.limit}}

\* the conditions of a contradiction between the memories a and b of store S,
\* each worked out from the texts
Antonyms(S, a, b) ==
  \E k \in DOMAIN negationPairs :
    negationHit(toLowerCase(ContentText[S.memories[a].content]),
                toLowerCase(ContentText[S.memories[b].content]), k)

Jaccard(S, a, b) ==
  contentSimilarity(ContentText[S.memories[a].content],
                    ContentText[S.memories[b].content])

CorroborationStrictlyRaises ==
  (last.op = "checkCorroboration" /\ ~last.failed) =>
    \A i \in DOMAIN last.results :
      LET r == last.results[i]
      IN /\ r.newConfidence > r.oldConfidence
         /\ Score(store, r.memoryId) > Score(last.pre, r.memoryId)
         /\ store.memories[r.memoryId].confidence.corroborations =
              last.pre.memories[r.memoryId].confidence.corroborations + 1

\* C10: for every candidate checkCorroboration reports, the reported
\* newConfidence is at most 1 and never lower than oldConfidence, and strictly
\* greater when oldConfidence is below 1 and the rounded boost is positive; the
\* stored score is the reported newConfidence (before the call it was
\* oldConfidence), and the stored corroboration count is exactly one more.
CorroborationRaisesUpToOne ==
  (last.op = "checkCorroboration" /\ ~last.failed) =>
    \A i \in DOMAIN last.results :
      LET r == last.results[i]
      IN /\ r.newConfidence <= ScoreOne
         /\ r.newConfidence >= r.oldConfidence
         /\ (r.oldConfidence < ScoreOne /\ r.boost > 0) => r.newConfidence > r.oldConfidence
         /\ Score(last.pre, r.memoryId) = r.oldConfidence
         /\ Score(store, r.memoryId) = r.newConfidence
         /\ store.memories[r.memoryId].confidence.corroborations =
              last.pre.memories[r.memoryId].confidence.corroborations + 1

\* a memory corroborated before was corroborated again and its score rose
CorroboratedAgain ==
  /\ last.op = "checkCorroboration"
  /\ ~last.failed
  /\ \E i \in DOMAIN last.results :
       /\ last.pre.memories[last.results[i].memoryId].confidence.corroborations > 0
       /\ last.results[i].newConfidence > last.results[i].oldConfidence

\* the attribution of a stored memory
Source(S, id) == S.memories[id].attribution

\* the memories whose source is not independent of that of the memory id: the
\* same type, and the actor and the context each equal or absent on a side
SameSource(S, id) ==
  {c \in Ids(S) :
     /\ Source(S, c).type = Source(S, id).type
     /\ \/ Source(S, c).actor = Source(S, id).actor
        \/ Source(S, c).actor = None
        \/ Source(S, id).actor = None
     /\ \/ Source(S, c).context = Source(S, id).context
        \/ Source(S, c).context = None
        \/ Source(S, id).context = None}

\* C11: checkCorroboration(newFact) returns no result for, and leaves the
\* stored confidence unchanged of, every candidate of the same source type
\* whose actor and context are each equal to newFact's or absent on at least
\* one side, whatever the similarity of the contents.
SameSourceNotCorroborated ==
  last.op = "checkCorroboration" =>
    \A c \in SameSource(last.pre, last.id) :
      /\ \A i \in DOMAIN last.results : last.results[i].memoryId # c
      /\ store.memories[c].confidence = last.pre.memories[c].confidence

\* a call passed over another memory with more than half of the words in
\* common, of the same type and with the actor absent on one side only
SameSourcePassedOver ==
  /\ last.op = "checkCorroboration"
  /\ ~last.failed
  /\ \E c \in SameSource(last.pre, last.id) \ {last.id} :
       /\ SimAbove(Jaccard(last.pre, c, last.id), 5)
       /\ Source(last.pre, c).actor # Source(last.pre, last.id).actor
       /\ Changed = {}

\* the counters of a stored memory
Corroborations(S, id) == S.memories[id].confidence.corroborations
Contradictions(S, id) == S.memories[id].confidence.contradictions

\* C12: a stored memory's corroboration and contradiction counts never
\* decrease: every checkCorroboration, findContradictions and verifyMemory
\* call, also one that fails part-way, leaves both at least as large as they
\* were before the call.
CountersNeverDecrease ==
  \A id \in Ids(last.pre) :
    /\ id \in Ids(store)
    /\ Corroborations(store, id) >= Corroborations(last.pre, id)
    /\ Contradictions(store, id) >= Contradictions(last.pre, id)

\* findContradictions raised the contradiction count of a memory that had
\* been corroborated before, and its corroboration count stayed
ContradictedAfterCorroborated ==
  /\ last.op = "findContradictions"
  /\ \E id \in Ids(last.pre) :
       /\ Corroborations(last.pre, id) > 0
       /\ Contradictions(store, id) > Contradictions(last.pre, id)
       /\ Corroborations(store, id) = Corroborations(last.pre, id)

\* the memories that support the memory id of store S: the other memories of
\* its candidate set whose similarity to it, worked out from the texts, is
\* above 0.4
Supporters(S, id) ==
  {c \in Range(findRelated(S, id)) \ {id} : SimAbove(Jaccard(S, c, id), 4)}

\* C13: verifyMemory(id) on a stored memory with k supporting candidates
\* returns verified = (k >= 1) and newConfidence = min(1, old score + 0.05 k)
\* and stores that score; with k = 0 the stored confidence is unchanged.
VerifyAddsPerSupporter ==
  (last.op = "verifyMemory" /\ ~last.failed) =>
    LET k == Cardinality(Supporters(last.pre, last.id))
        r == last.results[1]
    IN /\ r.verified = (k >= 1)
       /\ r.newConfidence = Min(ScoreOne, Score(last.pre, last.id) + 5 * k)
       /\ Score(store, last.id) = r.newConfidence
       /\ k = 0 => Changed = {}

\* a verification found two supporters, one of them of the memory's own
\* source, and raised the score by a tenth
VerifiedByTwo ==
  /\ last.op = "verifyMemory"
  /\ ~last.failed
  /\ Cardinality(Supporters(last.pre, last.id)) = 2
  /\ Supporters(last.pre, last.id) \cap SameSource(last.pre, last.id) # {}
  /\ Score(store, last.id) = Score(last.pre, last.id) + 10

\* C14 as claimed: the source type and the category of a stored memory never
\* change after creation, whatever operation is called, updateMemory included.
KindAndCategoryFixed ==
  \A id \in Ids(last.pre) :
    /\ Source(store, id).type = Source(last.pre, id).type
    /\ store.memories[id].category = last.pre.memories[id].category

\* C14: the source type of a stored memory never changes after creation; its
\* category changes only in an updateMemory call on that memory that is given
\* a category, and becomes the category given.
KindFixedCategoryByUpdate ==
  \A id \in Ids(last.pre) :
    /\ Source(store, id).type = Source(last.pre, id).type
    /\ store.memories[id].category # last.pre.memories[id].category =>
         /\ last.op = "updateMemory"
         /\ last.id = id
         /\ "category" \in DOMAIN last.results[1]
         /\ store.memories[id].category = last.results[1].category

\* updateMemory was given a category and the memory's category changed to it
CategoryUpdated ==
  /\ last.op = "updateMemory"
  /\ "category" \in DOMAIN last.results[1]
  /\ store.memories[last.id].category = last.results[1].category
  /\ store.memories[last.id].category # last.pre.memories[last.id].category

\* the base scores as the claim lists them, in hundredths, and the order of
\* the source types from the most to the least trusted
ClaimedBase ==
  [ experienced |-> 90, observed |-> 80, told |-> 60, read |-> 50, inferred |-> 40 ]
ClaimedRank ==
  [ experienced |-> 1, observed |-> 2, told |-> 3, read |-> 4, inferred |-> 5 ]

SweepChangesRelevanceOnly ==
  last.op = "applyDecay" =>
    /\ Ids(store) = Ids(last.pre)
    /\ store.memory_entities = last.pre.memory_entities
    /\ store.entities = last.pre.entities
    /\ \A id \in Ids(store) :
         /\ [store.memories[id] EXCEPT !.relevanceScore = Relevance(last.pre, id)]
              = last.pre.memories[id]
         /\ last.pre.memories[id].pinned => store.memories[id] = last.pre.memories[id]

\* a sweep lowered the relevance of an unpinned memory and passed over a
\* pinned one that had been idle as long
SweepPassedOverPinned ==
  /\ last.op = "applyDecay"
  /\ ~last.failed
  /\ \E a, b \in Ids(store) :
       /\ store.memories[a].pinned
       /\ ~store.memories[b].pinned
       /\ store.memories[a].lastAccessed < last.at
       /\ Relevance(store, b) < Relevance(last.pre, b)

\* C17: every result of quickRecall passes the filters recall applies by
\* default: the memory's confidence score is at least 0.3, its relevance at
\* least 0.1, and the result's finalScore at least 0.15.
QuickRecallFiltered ==
  last.op = "quickRecall" =>
    \A i \in 1..Len(last.results) :
      /\ Score(last.pre, last.results[i].memory) >= 30
      /\ Relevance(last.pre, last.results[i].memory) >= RelOne \div 10
      /\ last.results[i].finalScore >= minFinalScore

\* C18: every result of a recall with a non-empty category filter is a memory
\* whose category is one of the filter's, also when memories of other
\* categories match the query text or a listed entity.
CategoryFilterRespected ==
  (last.op = "recall" /\ ~last.failed /\ Len(last.query.categories) > 0) =>
    \A i \in 1..Len(last.results) :
      last.pre.memories[last.results[i].memory].category
        \in Range(last.query.categories)

\* the call of recall recorded in last, made on the same store by an engine
\* without an embedder
WithoutEmbedder == recall(last.pre, last.query, None, last.at)

\* C19: when the embedder's embed call fails, recall does not fail: it
\* returns exactly the results an engine without an embedder returns.
EmbedFailureDegrades ==
  (last.op = "recall" /\ last.embedder = "failing") =>
    /\ ~last.failed
    /\ last.results = WithoutEmbedder.results

\* the relevance of every memory after a sweep of store S at time t
SweptRelevance(S, t) ==
  [id \in Ids(S) |-> applyDecay(S, t, 0).store.memories[id].relevanceScore]

\* C20: recall, quickRecall and entityRecall are read-only: a call changes no
\* stored field of any memory (not accessCount, not lastAccessed), with or
\* without an embedder, so a sweep after the call gives every memory the
\* relevance a sweep at the same time without the call gives it.
RecallReadOnly ==
  last.op \in {"recall", "quickRecall", "entityRecall"} =>
    /\ store = last.pre
    /\ SweptRelevance(store, now) = SweptRelevance(last.pre, now)

\* the results of the recall recorded in last, as positions of its list
Listed == 1..Len(last.results)

\* C21: within the list recall returns, results of equal finalScore are
\* ordered by confidence score descending, and results equal in both by
\* creation time descending (most recent first).
TiesByTrustThenCreated ==
  (last.op = "recall" /\ ~last.failed) =>
    \A i, j \in Listed :
      (i < j /\ last.results[i].finalScore = last.results[j].finalScore) =>
        LET a == last.pre.memories[last.results[i].memory]
            b == last.pre.memories[last.results[j].memory]
        IN \/ a.confidence.score > b.confidence.score
           \/ /\ a.confidence.score = b.confidence.score
              /\ a.created >= b.created

\* the call recorded in last is one of the three recalls and it returned
Recalled == last.op \in {"recall", "quickRecall", "entityRecall"} /\ ~last.failed

\* C22: in every list recall, quickRecall or entityRecall returns, finalScore
\* is non-increasing: a result before another has a finalScore at least as
\* high.
FinalScoreNonIncreasing ==
  Recalled =>
    \A i, j \in Listed :
      i < j => last.results[i].finalScore >= last.results[j].finalScore

\* a quickRecall returned two results of different finalScore, and the one
\* the text search listed first is returned second
RankedAgainstSearchOrder ==
  /\ last.op = "quickRecall"
  /\ Len(last.results) = 2
  /\ last.results[1].finalScore > last.results[2].finalScore
  /\ searchByText(last.pre, last.query.text, last.query.limit * 3)[1]
       = last.results[2].memory

\* C23: no result of recall has a confidence score below the query's
\* minConfidence (default 0.3) or a finalScore below 0.15, and none has a
\* relevance below minRelevance (default 0.1) unless includeDecayed is set.
RecallFiltered ==
  (last.op = "recall" /\ ~last.failed) =>
    \A i \in Listed :
      /\ Score(last.pre, last.results[i].memory) >= last.query.minConfidence
      /\ last.results[i].finalScore >= minFinalScore
      /\ \/ last.query.includeDecayed
         \/ Relevance(last.pre, last.results[i].memory) >= last.query.minRelevance

\* a recall that returned results and whose text search found a memory of
\* confidence score below minConfidence or of relevance below minRelevance
FilteredSomeOut ==
  /\ last.op = "recall"
  /\ ~last.failed
  /\ ~last.query.includeDecayed
  /\ Len(last.results) > 0
  /\ \E id \in Range(searchByText(last.pre, last.query.text, last.query.limit * 3)) :
       \/ Score(last.pre, id) < last.query.minConfidence
       \/ Relevance(last.pre, id) < last.query.minRelevance

\* C24: invalid input gives an empty or negative result, no exception and no
\* change of the store: recall and quickRecall with the empty text return the
\* empty list, entityRecall of an unknown entity returns the empty list, and
\* verifyMemory of an unknown id returns verified = false.
InvalidInputEmptyResult ==
  /\ (last.op \in {"recall", "quickRecall"} /\ last.query.text = <<>>) =>
       ~last.failed /\ last.results = <<>> /\ store = last.pre
  /\ (last.op = "entityRecall" /\ last.query.entities[1] \notin DOMAIN last.pre.entities) =>
       ~last.failed /\ last.results = <<>> /\ store = last.pre
  /\ (last.op = "verifyMemory" /\ last.id \notin Ids(last.pre)) =>
       ~last.failed /\ ~last.results[1].verified /\ store = last.pre

\* the limits a negative limit could be clamped to
ClampLimits == 0..10

\* what the engine of the recorded call returns for the recorded query with
\* the given text and limit
ResultsFor(text, limit) ==
  recall(last.pre, [last.query EXCEPT !.text = text, !.limit = limit],
         last.embedder, last.at).results

\* C25: recall with a limit n >= 0 returns at most n results; recall with a
\* negative limit reports an error or behaves as recall with one fixed
\* non-negative limit, whatever the text: it returns neither a list with the
\* trailing results dropped nor one gathered without a bound on the
\* candidates.
LimitClamped ==
  last.op = "recall" =>
    IF last.query.limit >= 0
    THEN Len(last.results) <= last.query.limit
    ELSE \/ last.failed
         \/ \E d \in ClampLimits :
              \A text \in QueryTexts :
                ResultsFor(text, last.query.limit) = ResultsFor(text, d)

\* the files, the force option and the stats of the last sync
SyncRun == last.results[1]

\* the files the workspace had at the last sync
Present == {path \in Range(Paths) : SyncRun.files[path] # None}

\* the memories the store tracks as synced from the file
Synced(S, path) == {id \in Ids(S) : <<id, path>> \in S.synced_memories}

\* the file had, at the last sync, the content it was synced with before
Unchanged(path) ==
  /\ path \in DOMAIN last.pre.synced_files
  /\ last.pre.synced_files[path].content_hash = Hash[SyncRun.files[path]]

\* the contents of the facts of a file content that are not noise, in order
NonNoise(key) ==
  LET facts == SelectSeq(Facts[key], LAMBDA fact : ~isNoise(ContentText[fact.content]))
  IN [i \in 1..Len(facts) |-> facts[i].content]

\* the last sync re-indexed the files of the set and no other: the memories
\* synced from them before are gone, the memories synced from each are new
\* and hold, in order, the facts of its content that are not noise, and every
\* other memory is as it was
ReindexedExactly(paths) ==
  /\ \A path \in paths :
       LET new == Ascending(Synced(store, path))
       IN /\ Synced(last.pre, path) \cap Ids(store) = {}
          /\ Range(new) \cap Ids(last.pre) = {}
          /\ [i \in 1..Len(new) |-> store.memories[new[i]].content]
               = NonNoise(SyncRun.files[path])
  /\ \A id \in Ids(last.pre) \ UNION {Synced(last.pre, path) : path \in paths} :
       /\ id \in Ids(store)
       /\ store.memories[id] = last.pre.memories[id]
  /\ Ids(store) \ Ids(last.pre) = UNION {Synced(store, path) : path \in paths}

\* C26: a sync over files none of which changed since it was last synced
\* reports filesChanged = 0 and factsExtracted = 0 and leaves the memories as
\* they were; a sync re-indexes exactly the files that changed: it deletes
\* the memories synced from them before and stores the facts of the new
\* content that are not noise, and no other memory is touched.
ResyncIdempotent ==
  last.op = "sync" =>
    /\ (\A path \in Present : Unchanged(path)) =>
         /\ SyncRun.stats.filesChanged = 0
         /\ SyncRun.stats.factsExtracted = 0
         /\ store.memories = last.pre.memories
    /\ ReindexedExactly({path \in Present : ~Unchanged(path)})

\* C26, amended: the same of a sync that is not forced; a forced sync
\* re-indexes every file of the workspace, changed or not.
ResyncIdempotentUnlessForced ==
  last.op = "sync" =>
    IF SyncRun.force
    THEN ReindexedExactly(Present)
    ELSE /\ (\A path \in Present : Unchanged(path)) =>
              /\ SyncRun.stats.filesChanged = 0
              /\ SyncRun.stats.factsExtracted = 0
              /\ store.memories = last.pre.memories
         /\ ReindexedExactly({path \in Present : ~Unchanged(path)})

\* a sync that was not forced skipped an unchanged file and re-indexed a
\* changed one that had synced memories and now has a noise fact, in a store
\* that holds a memory created by hand
ReindexedChangedFile ==
  /\ last.op = "sync"
  /\ ~SyncRun.force
  /\ \E path \in Present : Unchanged(path) /\ Synced(last.pre, path) # {}
  /\ \E path \in Present :
       /\ ~Unchanged(path)
       /\ Synced(last.pre, path) # {}
       /\ Len(NonNoise(SyncRun.files[path])) < Len(Facts[SyncRun.files[path]])
       /\ Synced(store, path) # {}
  /\ \E id \in Ids(last.pre) : \A path \in Range(Paths) : id \notin Synced(last.pre, path)

\* the stored memories linked to the entity
LinkedTo(S, e) == {id \in Ids(S) : <<id, e>> \in S.memory_entities}

\* C27: in every reachable state each entity's memoryCount is the number of
\* stored memories linked to the entity, after any sequence of createMemory
\* (also of an input that lists the same entity twice), deleteMemory and sync.
MemoryCountIsLinkCount ==
  \A e \in DOMAIN store.entities :
    store.entities[e] = Cardinality(LinkedTo(store, e))

\* C28: the fused matchScore is non-decreasing in the semantic score: for
\* the same lexical and entity scores, a candidate with a semantic score above
\* 0.5 never gets a lower matchScore than with no semantic signal (score 0).
SemanticNeverLowers ==
  (last.op = "computeMatchScore" /\ 2 * last.results[1].scores.semantic > MatchOne) =>
    last.results[1].matchScore
      >= computeMatchScore([last.results[1].scores EXCEPT !.semantic = 0])

\* C29: findContradictions never reports a pair of memories whose contents
\* are identical: two verbatim copies of a statement that share an entity and
\* a category are not flagged as contradicting each other.
IdenticalNeverContradict ==
  last.op = "findContradictions" =>
    \A i \in 1..Len(last.results) :
      last.pre.memories[last.results[i].memoryA].content
        # last.pre.memories[last.results[i].memoryB].content

\* the memory entered the candidates of the recorded recall through the
\* category channel only: it has a category of the query, the text search did
\* not return it, it is linked to no entity of the query, and its embedding,
\* if an embedder is given, is not similar to the query's
CategoryOnly(id) ==
  /\ \E k \in 1..Len(last.query.categories) :
       id \in Range(searchByCategory(last.pre, last.query.categories[k],
                                     last.query.limit * 2))
  /\ id \notin Range(searchByText(last.pre, last.query.text, last.query.limit * 3))
  /\ \A k \in 1..Len(last.query.entities) :
       id \notin Range(getEntityMemories(last.pre, last.query.entities[k],
                                         last.query.limit * 2))
  /\ \/ last.embedder = None
     \/ 2 * cosineSimilarity(embed(last.query.text),
                             StoredEmbedding[last.pre.memories[id].content]) <= MatchOne

\* C30: a memory that enters the candidates of recall only through the
\* category channel is never returned: its channel scores are all 0, so its
\* finalScore is 0, below the floor of 0.15, whatever its trust, relevance
\* and context boost.
CategoryOnlyNeverReturned ==
  (last.op = "recall" /\ ~last.failed) =>
    \A id \in Ids(last.pre) :
      CategoryOnly(id) => \A i \in Listed : last.results[i].memory # id

\* a recall that returned a memory while another memory, trusted above the
\* query's minConfidence and not decayed, was a candidate through the
\* category channel only
CategoryOnlyDropped ==
  /\ last.op = "recall"
  /\ ~last.failed
  /\ Len(last.results) > 0
  /\ \E id \in Ids(last.pre) :
       /\ CategoryOnly(id)
       /\ Score(last.pre, id) >= last.query.minConfidence
       /\ Relevance(last.pre, id) >= last.query.minRelevance
====
